---- MODULE Spec2Model ----
(***************************************************************************)
(* A model of the RPC dispatch engine of pkgs/bft/rpc/lib/server:          *)
(* the JSON-RPC endpoint, the per-method HTTP endpoints and the WebSocket   *)
(* connection (read task, write task, outbound queue).                      *)
(*                                                                          *)
(* Text is modelled as sequences of one-character strings, so that the      *)
(* decoders are computed and not assumed.                                   *)
(***************************************************************************)
EXTENDS Integers, Sequences, FiniteSets, TLC

VARIABLES
    endpoint,   \* the part of the server the behaviour exercises: an endpoint,
                \* the construction of a connection, or the binders alone
    httpReq,    \* the HTTP request being served: path, body, query value
    httpOut,    \* what the handler wrote: kind and the responses written
    httpEmit,   \* the responses the JSON-RPC loop appended, one per step
    httpCalls,  \* the handler invocations made while serving httpReq
    wsState,    \* BaseService state of the connection: created/running/stopped
    quit,       \* the Quit() channel is closed
    writeChan,  \* the outbound queue, a buffered channel of responses
    readPC,     \* position of the read task
    readers,    \* number of live read tasks
    pending,    \* the response the read task is pushing (WriteRPCResponse)
    curFrame,   \* the frame the read task last read, with its arrival number
    curCall,    \* the invocation made for curFrame, or NoCall
    nRead,      \* frames read so far
    respawns,   \* read tasks respawned after a recovered fault
    writePC,    \* position of the write task
    written,    \* the frames written to the stream, in order
    closes,     \* calls of baseConn.Close()
    disconnects,\* calls of the onDisconnect callback
    pongs,      \* the write task's channel of pending keepalive replies
    pushPC,     \* position of a concurrent caller of WriteRPCResponse
    pushes,     \* pushes started by concurrent callers
    lastPush,   \* the last push a concurrent caller finished: which push,
                \* whether it enqueued, and the quit signal at its return
    handlerPC,  \* position of the caller of WebsocketHandler
    silent,     \* the peer has stopped sending frames, data and control
    readExit,   \* why the read task left its loop, "none" while it has not
    writeExit,  \* why the write task left its loop, "none" while it has not
    lastPing,   \* the latest ping received since the write task last took a
                \* reply from pongs, "" when there is none
    ctx,        \* wsc.ctx: "nil", "live" or "cancelled"
    options,    \* the options NewWSConnection has applied, in order
    wsc,        \* the timing fields of the connection under construction
    bindIn,     \* the input of the last call of an argument binder
    bindOut,    \* what that call returned
    totalSupply,\* Token.totalSupply
    balances,   \* Token.balances: address -> amount, 0 for an absent key
    allowances, \* Token.allowances: owner -> spender -> amount, 0 when absent
    lastOp,     \* the last call made to the token: the function and its panic
    spent,      \* owner -> spender -> the amount TransferFrom has moved since
                \* the last Approve of the pair
    nOps        \* calls made to the token so far

httpVars == <<httpReq, httpOut, httpEmit, httpCalls>>
wsVars == <<wsState, quit, writeChan, readPC, readers, pending, curFrame, curCall,
            nRead, respawns, writePC, written, closes, disconnects, pongs,
            pushPC, pushes, lastPush, handlerPC, silent, readExit, writeExit,
            lastPing, ctx>>
confVars == <<options, wsc>>
bindVars == <<bindIn, bindOut>>
tokVars == <<totalSupply, balances, allowances, lastOp, spent, nOps>>
vars == <<endpoint, httpVars, wsVars, confVars, bindVars, tokVars>>

-----------------------------------------------------------------------------
(* Bounds of the model *)

\* longest JSON-RPC batch a client sends
MaxBatch == 3
\* frames a WebSocket client sends on one connection
MaxFrames == 2
\* capacity given to the outbound queue (option WriteChanCapacity)
ChanCap == 2
\* pushes made by concurrent callers (handlers holding the WSConn)
MaxPushes == 1
\* options given to NewWSConnection
MaxOptions == 2
\* longest sequence payload given to the binder
MaxParams == 3

-----------------------------------------------------------------------------
(* Text *)

Digits == {"0", "1", "2", "3", "4", "5", "6", "7", "8", "9"}

HasPrefix(s, p) == Len(s) >= Len(p) /\ SubSeq(s, 1, Len(p)) = p

HasSuffix(s, p) == Len(s) >= Len(p) /\ SubSeq(s, Len(s) - Len(p) + 1, Len(s)) = p

\* some raw JSON texts
QuotedA == <<"\"", "a", "\"">>
Seven == <<"7">>
Quoted7 == <<"\"", "7", "\"">>

-----------------------------------------------------------------------------
(* Typed values (reflect.Value) *)

StringValue(s) == [t |-> "string", v |-> s]

\* Target types: "string", "int64", "bytes" ([]byte), and pointers to them
IsPtr(rt) == rt \in {"*string", "*int64", "*bytes"}

\* rt.Elem()
Elem(rt) ==
    IF rt = "*string" THEN "string"
    ELSE IF rt = "*int64" THEN "int64"
    ELSE IF rt = "*bytes" THEN "bytes"
    ELSE rt

\* reflect.Zero(argType); the zero value of a pointer type is the nil pointer
ZeroValue(argType) ==
    IF argType = "string" THEN StringValue(<<>>)
    ELSE IF argType = "int64" THEN [t |-> "int64", v |-> <<"0">>]
    ELSE [t |-> argType, v |-> <<>>]

\* rv := reflect.New(rt.Elem()); rv.Elem().Set(val): a pointer to val
Boxed(val) == [t |-> "ptr", v |-> val]

Decoded(val) == [err |-> FALSE, val |-> val]
DecodeError == [err |-> TRUE, val |-> <<>>]

\* a JSON string literal: quotes around a text that holds none
IsJSONString(p) ==
    /\ Len(p) >= 2
    /\ p[1] = "\""
    /\ p[Len(p)] = "\""
    /\ \A i \in 2..(Len(p) - 1) : p[i] # "\""

\* a JSON string literal that holds one or more digits and nothing else
IsJSONQuotedInt(p) ==
    /\ Len(p) >= 3
    /\ p[1] = "\""
    /\ p[Len(p)] = "\""
    /\ \A i \in 2..(Len(p) - 1) : p[i] \in Digits

Unquote(p) == SubSeq(p, 2, Len(p) - 1)

\* The structural JSON decoder on a target that is no pointer: a string
\* target takes a string literal, a 64-bit integer target takes quoted
\* digits. A byte-sequence target takes a string literal of base64 text,
\* which none of the texts of this model is.
UnmarshalValue(p, argType) ==
    IF argType = "string" /\ IsJSONString(p)
    THEN Decoded(StringValue(Unquote(p)))
    ELSE IF argType = "int64" /\ IsJSONQuotedInt(p)
    THEN Decoded([t |-> "int64", v |-> Unquote(p)])
    ELSE DecodeError

BoxedIf(dec) == IF dec.err THEN DecodeError ELSE Decoded(Boxed(dec.val))

\* The structural JSON decoder: a pointer target takes what its element
\* type takes, and points to the value.
UnmarshalJSON(p, argType) ==
    IF IsPtr(argType)
    THEN BoxedIf(UnmarshalValue(p, Elem(argType)))
    ELSE UnmarshalValue(p, argType)

-----------------------------------------------------------------------------
(* The function registry *)

RPCFunc(args, argNames, ws, behaviour) ==
    [args |-> args, argNames |-> argNames, ws |-> ws, f |-> behaviour]

\* The registered functions. args[1] is the leading context argument every
\* function takes; f names what the function does when called.
funcMap ==
    [echo      |-> RPCFunc(<<"ctx", "string">>, <<"s">>, FALSE, "echo"),
     status    |-> RPCFunc(<<"ctx">>, <<>>, FALSE, "ok"),
     fail      |-> RPCFunc(<<"ctx">>, <<>>, FALSE, "error"),
     boom      |-> RPCFunc(<<"ctx">>, <<>>, FALSE, "panic"),
     subscribe |-> RPCFunc(<<"ctx", "string">>, <<"query">>, TRUE, "ok"),
     pair      |-> RPCFunc(<<"ctx", "string", "int64">>, <<"s", "n">>, FALSE, "ok")]

Registered == DOMAIN funcMap

-----------------------------------------------------------------------------
(* Requests and responses *)

NoParams == [kind |-> "none", a |-> <<>>, m |-> <<>>]
ArrayParams(a) == [kind |-> "array", a |-> a, m |-> <<>>]
MapParams(m) == [kind |-> "map", a |-> <<>>, m |-> m]
OtherParams == [kind |-> "other", a |-> <<>>, m |-> <<>>]

\* len(request.Params) > 0
HasParams(params) == params.kind # "none"

RPCRequest(id, method, params) == [id |-> id, method |-> method, params |-> params]

RPCResponse(id, class, result) == [id |-> id, class |-> class, result |-> result]

NoResult == <<>>

NewRPCSuccessResponse(id, result) == RPCResponse(id, "Success", result)
RPCParseError(id) == RPCResponse(id, "ParseError", NoResult)
RPCInvalidRequestError(id) == RPCResponse(id, "InvalidRequest", NoResult)
RPCMethodNotFoundError(id) == RPCResponse(id, "MethodNotFound", NoResult)
RPCInvalidParamsError(id) == RPCResponse(id, "InvalidParams", NoResult)
RPCInternalError(id) == RPCResponse(id, "InternalError", NoResult)

FailureClasses ==
    {"ParseError", "InvalidRequest", "MethodNotFound", "InvalidParams", "InternalError"}

-----------------------------------------------------------------------------
(* Argument binder, JSON payloads *)

BindError == [err |-> TRUE, values |-> <<>>]
Bound(values) == [err |-> FALSE, values |-> values]

\* the values of the decoded arguments, or the error of one that failed
Collect(decs) ==
    IF \E i \in DOMAIN decs : decs[i].err
    THEN BindError
    ELSE Bound([i \in DOMAIN decs |-> decs[i].val])

\* p, ok := params[argName]; ok && p != nil && len(p) > 0
PresentParam(params, argName) == argName \in DOMAIN params /\ Len(params[argName]) > 0

\* a variant of the mapping binder that takes every parameter as required
mapParamsToArgs_Required(rpcFunc, params, argsOffset) ==
    Collect([i \in 1..Len(rpcFunc.argNames) |->
               IF PresentParam(params, rpcFunc.argNames[i])
               THEN UnmarshalJSON(params[rpcFunc.argNames[i]], rpcFunc.args[i + argsOffset])
               ELSE DecodeError])

mapParamsToArgs(rpcFunc, params, argsOffset) ==
    Collect([i \in 1..Len(rpcFunc.argNames) |->
               IF PresentParam(params, rpcFunc.argNames[i])
               THEN UnmarshalJSON(params[rpcFunc.argNames[i]], rpcFunc.args[i + argsOffset])
               ELSE Decoded(ZeroValue(rpcFunc.args[i + argsOffset]))])

\* a variant of the sequence binder that only refuses a sequence longer
\* than the declared parameters
arrayParamsToArgs_AtMost(rpcFunc, params, argsOffset) ==
    IF Len(rpcFunc.argNames) < Len(params)
    THEN BindError
    ELSE Collect([i \in 1..Len(params) |->
                    UnmarshalJSON(params[i], rpcFunc.args[i + argsOffset])])

arrayParamsToArgs(rpcFunc, params, argsOffset) ==
    IF Len(rpcFunc.argNames) # Len(params)
    THEN BindError
    ELSE Collect([i \in 1..Len(params) |->
                    UnmarshalJSON(params[i], rpcFunc.args[i + argsOffset])])

jsonParamsToArgs(rpcFunc, raw) ==
    IF raw.kind = "map" THEN mapParamsToArgs(rpcFunc, raw.m, 1)
    ELSE IF raw.kind = "array" THEN arrayParamsToArgs(rpcFunc, raw.a, 1)
    ELSE BindError

-----------------------------------------------------------------------------
(* Dispatcher *)

Nil == "nil"
Context == [t |-> "ctx", v |-> <<>>]
OkResult == StringValue(<<"o", "k">>)

Returned(invoked, panicked, result, err) ==
    [invoked |-> invoked, panicked |-> panicked, returns |-> <<result, err>>]

\* rpcFunc.f.Call(args): reflect panics before the call when the number of
\* arguments is not the function's; otherwise the function runs and returns
\* (result, error) or panics.
Call(rpcFunc, args) ==
    IF Len(args) # Len(rpcFunc.args) THEN Returned(FALSE, TRUE, <<>>, Nil)
    ELSE IF rpcFunc.f = "panic" THEN Returned(TRUE, TRUE, <<>>, Nil)
    ELSE IF rpcFunc.f = "error" THEN Returned(TRUE, FALSE, <<>>, "failed")
    ELSE IF rpcFunc.f = "echo" THEN Returned(TRUE, FALSE, args[2], Nil)
    ELSE Returned(TRUE, FALSE, OkResult, Nil)

\* a variant of unreflectResult that drops the returned error
unreflectResult_IgnoresError(returns) == [err |-> FALSE, result |-> returns[1]]

unreflectResult(returns) ==
    IF returns[2] # Nil
    THEN [err |-> TRUE, result |-> NoResult]
    ELSE [err |-> FALSE, result |-> returns[1]]

\* one record per use of rpcFunc.f.Call
CallRecord(id, method, args, invoked) ==
    [id |-> id, method |-> method, args |-> args, invoked |-> invoked]

NoCall == CallRecord("", "", <<>>, FALSE)

\* What one request comes to: a response to emit ("push"), nothing
\* ("continue"), or a panic; with the call made for it, if any.
Step(kind, resp, call) == [kind |-> kind, resp |-> resp, call |-> call]

NoResponse == RPCResponse("", "none", NoResult)

\* the call has returned or panicked: unreflectResult and the response
Respond(id, call, c, res) ==
    IF c.panicked THEN Step("panic", NoResponse, call)
    ELSE IF res.err THEN Step("push", RPCInternalError(id), call)
    ELSE Step("push", NewRPCSuccessResponse(id, res.result), call)

Unreflect(request, args, c) ==
    Respond(request.id, CallRecord(request.id, request.method, args, c.invoked), c,
            unreflectResult(c.returns))

\* returns := rpcFunc.f.Call(args); result, err := unreflectResult(returns)
Invoke(request, rpcFunc, args) == Unreflect(request, args, Call(rpcFunc, args))

-----------------------------------------------------------------------------
(* JSON-RPC endpoint *)

\* A request body: one that cannot be read, empty, not JSON at all, a JSON
\* value that is no request (a number), one request object, or an array of
\* request objects.
UnreadableBody == [kind |-> "unreadable", reqs |-> <<>>]
EmptyBody == [kind |-> "empty", reqs |-> <<>>]
GarbageBody == [kind |-> "garbage", reqs |-> <<>>]
ScalarBody == [kind |-> "scalar", reqs |-> <<>>]
ObjectBody(request) == [kind |-> "object", reqs |-> <<request>>]
ArrayBody(requests) == [kind |-> "array", reqs |-> requests]

\* json.Unmarshal(b, &requests)
UnmarshalRequests(b) ==
    IF b.kind = "array" THEN [err |-> FALSE, requests |-> b.reqs]
    ELSE [err |-> TRUE, requests |-> <<>>]

\* json.Unmarshal(b, &request)
UnmarshalRequest(b) ==
    IF b.kind = "object" THEN [err |-> FALSE, requests |-> b.reqs]
    ELSE [err |-> TRUE, requests |-> <<>>]

RootPath == <<"/">>

Written(kind, resps) == [kind |-> kind, resps |-> resps]
NothingWritten == Written("none", <<>>)
\* WriteRPCResponseHTTP(w, res)
WriteRPCResponseHTTP(res) == Written("single", <<res>>)
\* WriteRPCResponseArrayHTTP(w, res)
WriteRPCResponseArrayHTTP(res) == Written("array", res)
\* the handler's goroutine panicked: it wrote nothing
Panicked == Written("panic", <<>>)

Served(out, emit, calls) == [out |-> out, emit |-> emit, calls |-> calls]

\* the params are bound (or there were none to bind): call the function
jsonrpcBound(request, rpcFunc, bound) ==
    IF bound.err
    THEN Step("push", RPCInvalidParamsError(request.id), NoCall)
    ELSE Invoke(request, rpcFunc, <<Context>> \o bound.values)

\* a variant of the loop body that answers an unknown method without the
\* request's id
jsonrpcRequest_DropsId(request, path) ==
    IF request.id = ""
    THEN Step("continue", NoResponse, NoCall)
    ELSE IF Len(path) > 1
    THEN Step("push", RPCInvalidRequestError(request.id), NoCall)
    ELSE IF request.method \notin Registered
    THEN Step("push", RPCMethodNotFoundError(""), NoCall)
    ELSE IF funcMap[request.method].ws
    THEN Step("push", RPCMethodNotFoundError(request.id), NoCall)
    ELSE jsonrpcBound(request, funcMap[request.method],
                      IF HasParams(request.params)
                      THEN jsonParamsToArgs(funcMap[request.method], request.params)
                      ELSE Bound(<<>>))

\* a variant of the loop body without the test of rpcFunc.ws
jsonrpcRequest_NoWSCheck(request, path) ==
    IF request.id = ""
    THEN Step("continue", NoResponse, NoCall)
    ELSE IF Len(path) > 1
    THEN Step("push", RPCInvalidRequestError(request.id), NoCall)
    ELSE IF request.method \notin Registered
    THEN Step("push", RPCMethodNotFoundError(request.id), NoCall)
    ELSE jsonrpcBound(request, funcMap[request.method],
                      IF HasParams(request.params)
                      THEN jsonParamsToArgs(funcMap[request.method], request.params)
                      ELSE Bound(<<>>))

\* the body of the loop, for one request
jsonrpcRequest(request, path) ==
    IF request.id = ""
    THEN Step("continue", NoResponse, NoCall)
    ELSE IF Len(path) > 1
    THEN Step("push", RPCInvalidRequestError(request.id), NoCall)
    ELSE IF request.method \notin Registered \/ funcMap[request.method].ws
    THEN Step("push", RPCMethodNotFoundError(request.id), NoCall)
    ELSE jsonrpcBound(request, funcMap[request.method],
                      IF HasParams(request.params)
                      THEN jsonParamsToArgs(funcMap[request.method], request.params)
                      ELSE Bound(<<>>))

AppendIf(cond, seq, e) == IF cond THEN Append(seq, e) ELSE seq

\* The loop over the decoded requests, from request i on, with the responses
\* and the calls collected so far; a panic ends it with nothing written.
RECURSIVE jsonrpcLoop(_, _, _, _, _)
jsonrpcAfter(requests, path, i, responses, calls, step) ==
    IF step.kind = "panic"
    THEN Served(Panicked, responses, Append(calls, step.call))
    ELSE jsonrpcLoop(requests, path, i + 1,
                     AppendIf(step.kind = "push", responses, step.resp),
                     AppendIf(step.call # NoCall, calls, step.call))

jsonrpcLoop(requests, path, i, responses, calls) ==
    IF i > Len(requests)
    THEN Served(IF Len(responses) > 0
                THEN WriteRPCResponseArrayHTTP(responses)
                ELSE NothingWritten,
                responses, calls)
    ELSE jsonrpcAfter(requests, path, i, responses, calls,
                      jsonrpcRequest(requests[i], path))

\* a variant of the handler that answers a body it cannot decode as it
\* answers a body it cannot read
makeJSONRPCHandler_InvalidRequest(r) ==
    IF r.body.kind = "unreadable"
    THEN Served(WriteRPCResponseHTTP(RPCInvalidRequestError("")), <<>>, <<>>)
    ELSE IF r.body.kind = "empty"
    THEN Served(Written("listing", <<>>), <<>>, <<>>)
    ELSE IF ~UnmarshalRequests(r.body).err
    THEN jsonrpcLoop(UnmarshalRequests(r.body).requests, r.path, 1, <<>>, <<>>)
    ELSE IF ~UnmarshalRequest(r.body).err
    THEN jsonrpcLoop(UnmarshalRequest(r.body).requests, r.path, 1, <<>>, <<>>)
    ELSE Served(WriteRPCResponseHTTP(RPCInvalidRequestError("")), <<>>, <<>>)

makeJSONRPCHandler(r) ==
    IF r.body.kind = "unreadable"
    THEN Served(WriteRPCResponseHTTP(RPCInvalidRequestError("")), <<>>, <<>>)
    ELSE IF r.body.kind = "empty"
    THEN Served(Written("listing", <<>>), <<>>, <<>>)
    ELSE IF ~UnmarshalRequests(r.body).err
    THEN jsonrpcLoop(UnmarshalRequests(r.body).requests, r.path, 1, <<>>, <<>>)
    ELSE IF ~UnmarshalRequest(r.body).err
    THEN jsonrpcLoop(UnmarshalRequest(r.body).requests, r.path, 1, <<>>, <<>>)
    ELSE Served(WriteRPCResponseHTTP(RPCParseError("")), <<>>, <<>>)

\* a variant of the catch-all endpoint without the check of the path
handleInvalidJSONRPCPaths_NoGate(r) == makeJSONRPCHandler(r)

handleInvalidJSONRPCPaths(r) ==
    IF r.path # RootPath
    THEN Served(Written("notfound", <<>>), <<>>, <<>>)
    ELSE makeJSONRPCHandler(r)

-----------------------------------------------------------------------------
(* Argument binder, query strings *)

HexDigits == Digits \cup {"a", "b", "c", "d", "e", "f", "A", "B", "C", "D", "E", "F"}

ToLower(c) ==
    IF c = "X" THEN "x" ELSE c

\* RE_INT: an optional sign and one or more digits
IsIntString(arg) ==
    LET body == IF Len(arg) >= 1 /\ arg[1] = "-" THEN Tail(arg) ELSE arg
    IN  Len(body) >= 1 /\ \A i \in 1..Len(body) : body[i] \in Digits

\* the character a byte stands for, for the bytes the model's texts use
ByteChar(hi, lo) ==
    IF <<hi, lo>> = <<"6", "1">> THEN "a"
    ELSE IF <<hi, lo>> = <<"6", "8">> THEN "h"
    ELSE IF <<hi, lo>> = <<"6", "9">> THEN "i"
    ELSE IF <<hi, lo>> = <<"3", "7">> THEN "7"
    ELSE "?"

\* hex.DecodeString
HexDecodeString(s) ==
    IF Len(s) % 2 # 0 \/ \E i \in 1..Len(s) : s[i] \notin HexDigits
    THEN [err |-> TRUE, bytes |-> <<>>]
    ELSE [err |-> FALSE,
          bytes |-> [i \in 1..(Len(s) \div 2) |-> ByteChar(s[2 * i - 1], s[2 * i])]]

\* What nonJSONStringToArg returns: (value, error, ok), and with it the
\* branch that returned, for the properties that tell the branches apart.
NonJSON(err, ok, val, rule) == [err |-> err, ok |-> ok, val |-> val, rule |-> rule]
NotDecided == NonJSON(FALSE, FALSE, NoResult, "none")
ArgError(rule) == NonJSON(TRUE, FALSE, NoResult, rule)
Decided(val, rule) == NonJSON(FALSE, TRUE, val, rule)

jsonStringToArg(rt, arg) == UnmarshalJSON(arg, rt)

DecidedIf(dec) == IF dec.err THEN ArgError("int") ELSE Decided(dec.val, "int")

\* the hex branch: only a string or a byte slice takes a hex value
hexArg(rt, hex) ==
    IF rt # "string" /\ rt # "bytes" THEN ArgError("hex")
    ELSE IF hex.err THEN ArgError("hex")
    ELSE IF rt = "string" THEN Decided(StringValue(hex.bytes), "hex")
    ELSE Decided([t |-> "bytes", v |-> hex.bytes], "hex")

\* the quoted branch: the text of the JSON string, as bytes
quotedArg(str) ==
    IF str.err THEN ArgError("quoted")
    ELSE Decided([t |-> "bytes", v |-> str.val.v], "quoted")

IsHexString(arg) == Len(arg) >= 2 /\ arg[1] = "0" /\ ToLower(arg[2]) = "x"

IsQuotedString(arg) == HasPrefix(arg, <<"\"">>) /\ HasSuffix(arg, <<"\"">>)

\* a variant of the quoted branch's test that does not look at the target
_nonJSONStringToArg_AnyQuoted(rt, arg) ==
    IF IsIntString(arg) /\ rt = "int64"
    THEN DecidedIf(jsonStringToArg(rt, <<"\"">> \o arg \o <<"\"">>))
    ELSE IF IsHexString(arg)
    THEN hexArg(rt, HexDecodeString(SubSeq(arg, 3, Len(arg))))
    ELSE IF IsQuotedString(arg)
    THEN quotedArg(UnmarshalJSON(arg, "string"))
    ELSE NotDecided

\* rt is no pointer type
_nonJSONStringToArg(rt, arg) ==
    IF IsIntString(arg) /\ rt = "int64"
    THEN DecidedIf(jsonStringToArg(rt, <<"\"">> \o arg \o <<"\"">>))
    ELSE IF IsHexString(arg)
    THEN hexArg(rt, HexDecodeString(SubSeq(arg, 3, Len(arg))))
    ELSE IF IsQuotedString(arg) /\ rt = "bytes"
    THEN quotedArg(UnmarshalJSON(arg, "string"))
    ELSE NotDecided

\* the pointer case: what the element type gives, boxed when it is a value
boxedArg(nj) ==
    IF nj.err THEN ArgError(nj.rule)
    ELSE IF nj.ok THEN Decided(Boxed(nj.val), nj.rule)
    ELSE NotDecided

nonJSONStringToArg(rt, arg) ==
    IF IsPtr(rt)
    THEN boxedArg(_nonJSONStringToArg(Elem(rt), arg))
    ELSE _nonJSONStringToArg(rt, arg)

\* GetParam(r, name): the query value, "" when absent
GetParam(query, name) == IF name \in DOMAIN query THEN query[name] ELSE <<>>

\* one argument and the branch that gave it
Arg(dec, rule) == [err |-> dec.err, val |-> dec.val, rule |-> rule]

\* one argument of httpParamsToArgs, after the non-JSON attempt
httpArgAfter(rt, arg, nj) ==
    IF nj.err THEN Arg(DecodeError, nj.rule)
    ELSE IF nj.ok THEN Arg(Decoded(nj.val), nj.rule)
    ELSE Arg(jsonStringToArg(rt, arg), "json")

httpArg(rt, arg) ==
    IF arg = <<>> THEN Arg(Decoded(ZeroValue(rt)), "zero")
    ELSE httpArgAfter(rt, arg, nonJSONStringToArg(rt, arg))

httpParamsToArgs(rpcFunc, query) ==
    Collect([i \in 1..Len(rpcFunc.argNames) |->
               httpArg(rpcFunc.args[i + 1], GetParam(query, rpcFunc.argNames[i]))])

-----------------------------------------------------------------------------
(* Per-method HTTP endpoint *)

\* what a step of the dispatch comes to on a per-method endpoint
httpServed(step) ==
    IF step.kind = "panic"
    THEN Served(Panicked, <<>>, <<step.call>>)
    ELSE Served(WriteRPCResponseHTTP(step.resp), <<>>,
                AppendIf(step.call # NoCall, <<>>, step.call))

httpBound(name, rpcFunc, bound) ==
    IF bound.err
    THEN Step("push", RPCInvalidParamsError(""), NoCall)
    ELSE Invoke(RPCRequest("", name, NoParams), rpcFunc, <<Context>> \o bound.values)

makeHTTPHandler(name, r) ==
    IF funcMap[name].ws
    THEN Served(WriteRPCResponseHTTP(RPCMethodNotFoundError("")), <<>>, <<>>)
    ELSE httpServed(httpBound(name, funcMap[name],
                              httpParamsToArgs(funcMap[name], r.query)))

\* The mux of RegisterRPCFuncs: "/"+funcName goes to the function's handler,
\* every other path to the catch-all JSON-RPC endpoint.
MethodPath(name) == <<"/", name>>

RegisterRPCFuncs(r) ==
    IF \E name \in Registered : r.path = MethodPath(name)
    THEN makeHTTPHandler(r.path[2], r)
    ELSE handleInvalidJSONRPCPaths(r)

-----------------------------------------------------------------------------
(* What clients send *)

IDs == {"", "1", "2"}

\* method and params of the requests clients send: every branch of the
\* dispatch is reached by one of them
Calls ==
    {[method |-> "echo", params |-> NoParams],
     [method |-> "echo", params |-> ArrayParams(<<QuotedA>>)],
     [method |-> "echo", params |-> ArrayParams(<<Seven>>)],
     [method |-> "echo", params |-> ArrayParams(<<>>)],
     [method |-> "status", params |-> NoParams],
     [method |-> "fail", params |-> NoParams],
     [method |-> "boom", params |-> NoParams],
     [method |-> "subscribe", params |-> ArrayParams(<<QuotedA>>)],
     [method |-> "missing", params |-> NoParams]}

Requests == {RPCRequest(id, c.method, c.params) : id \in IDs, c \in Calls}

Batches(n) == [1..n -> Requests]

SingleBodies ==
    {UnreadableBody, EmptyBody, GarbageBody, ScalarBody} \cup {ObjectBody(q) : q \in Requests}

\* a path no function is registered under
ExtraPath == <<"/", "v1">>

QueryArgs == {<<>>, QuotedA, Seven, <<"a">>, <<"0", "x", "6", "8", "6", "9">>}

Queries(name) ==
    IF funcMap[name].argNames = <<>> THEN {<<>>}
    ELSE {<<>>} \cup {[n \in {funcMap[name].argNames[1]} |-> a] : a \in QueryArgs \ {<<>>}}

HTTPRequest(path, body, query) == [path |-> path, body |-> body, query |-> query]

-----------------------------------------------------------------------------
(* HTTP: one action per request served. Requests are served independently  *)
(* of each other, so a behaviour serves one.                               *)

Idle == Written("idle", <<>>)

InitHTTP ==
    /\ httpReq = HTTPRequest(<<>>, EmptyBody, <<>>)
    /\ httpOut = Idle
    /\ httpEmit = <<>>
    /\ httpCalls = <<>>

\* the server is up and this behaviour's request has not been served yet
Listening == endpoint = "http" /\ httpOut = Idle

Record(r, served) ==
    /\ httpReq' = r
    /\ httpOut' = served.out
    /\ httpEmit' = served.emit
    /\ httpCalls' = served.calls
    /\ UNCHANGED <<endpoint, wsVars, confVars, bindVars, tokVars>>

Serve(r) == Record(r, RegisterRPCFuncs(r))

\* POST / with a body that is no array of requests
ServeJSONRPC ==
    /\ Listening
    /\ \E body \in SingleBodies : Serve(HTTPRequest(RootPath, body, <<>>))

\* POST / with a batch
ServeBatch ==
    /\ Listening
    /\ \E n \in 0..MaxBatch : \E b \in Batches(n) :
        Serve(HTTPRequest(RootPath, ArrayBody(b), <<>>))

\* a request to a path that is neither / nor a function's
ServeOtherPath ==
    /\ Listening
    /\ \E body \in SingleBodies : Serve(HTTPRequest(ExtraPath, body, <<>>))

\* GET /<name>?<arg>=<value>
ServeHTTP ==
    /\ Listening
    /\ \E name \in Registered : \E q \in Queries(name) :
        Serve(HTTPRequest(MethodPath(name), EmptyBody, q))

NextHTTP == ServeJSONRPC \/ ServeBatch \/ ServeOtherPath \/ ServeHTTP

-----------------------------------------------------------------------------
(* WebSocket connection: the outbound queue *)

\* A queued message: the response, and the arrival number of the frame it
\* answers (0 for a message no frame caused).
Msg(resp, src) == [resp |-> resp, src |-> src]

NoMsg == Msg(NoResponse, 0)

Pushed(chan, sent) == [chan |-> chan, sent |-> sent]

\* a variant of the guaranteed-delivery push that puts the message at the
\* head of the queue
WriteRPCResponse_Front(msg) ==
    (IF quit THEN {Pushed(writeChan, FALSE)} ELSE {})
    \cup (IF Len(writeChan) < ChanCap THEN {Pushed(<<msg>> \o writeChan, TRUE)} ELSE {})

\* a variant of the best-effort push that makes room in a full queue by
\* dropping its oldest message
TryWriteRPCResponse_DropsOldest(msg) ==
    IF Len(writeChan) < ChanCap
    THEN {Pushed(Append(writeChan, msg), TRUE)} \cup (IF quit THEN {Pushed(writeChan, FALSE)} ELSE {})
    ELSE IF quit
    THEN {Pushed(writeChan, FALSE)}
    ELSE {Pushed(Append(Tail(writeChan), msg), TRUE)}

\* a variant of the guaranteed-delivery push that waits for room in the
\* queue alone, without the case of the quit signal
WriteRPCResponse_NoQuit(msg) ==
    IF Len(writeChan) < ChanCap THEN {Pushed(Append(writeChan, msg), TRUE)} ELSE {}

\* select { case <-wsc.Quit(): return; case wsc.writeChan <- resp: }
\* The outcomes of the cases that are ready; none when the push blocks.
WriteRPCResponse(msg) ==
    (IF quit THEN {Pushed(writeChan, FALSE)} ELSE {})
    \cup (IF Len(writeChan) < ChanCap THEN {Pushed(Append(writeChan, msg), TRUE)} ELSE {})

\* the same select with a default case, taken when no other case is ready
TryWriteRPCResponse(msg) ==
    LET ready == (IF quit THEN {Pushed(writeChan, FALSE)} ELSE {})
                 \cup (IF Len(writeChan) < ChanCap
                       THEN {Pushed(Append(writeChan, msg), TRUE)}
                       ELSE {})
    IN  IF ready = {} THEN {Pushed(writeChan, FALSE)} ELSE ready

-----------------------------------------------------------------------------
(* WebSocket connection: one frame of the read task *)

GarbageFrame == [kind |-> "garbage", request |-> RPCRequest("", "", NoParams)]
RequestFrame(request) == [kind |-> "request", request |-> request]
NoFrame == [kind |-> "none", request |-> RPCRequest("", "", NoParams)]

\* the params are bound (or there were none to bind): call the function
wsBound(request, rpcFunc, bound) ==
    IF bound.err
    THEN Step("push", RPCInternalError(request.id), NoCall)
    ELSE Invoke(request, rpcFunc, <<Context>> \o bound.values)

\* What the loop body does with the frame it read: push a response and
\* continue, continue without a response, or panic.
readFrame(in) ==
    IF in.kind # "request"
    THEN Step("push", RPCParseError(""), NoCall)
    ELSE IF in.request.id = ""
    THEN Step("continue", NoResponse, NoCall)
    ELSE IF in.request.method \notin Registered
    THEN Step("push", RPCMethodNotFoundError(in.request.id), NoCall)
    ELSE wsBound(in.request, funcMap[in.request.method],
                 IF HasParams(in.request.params)
                 THEN jsonParamsToArgs(funcMap[in.request.method], in.request.params)
                 ELSE Bound(<<>>))

\* the response the deferred recover() pushes
RecoveredResponse == RPCInternalError("unknown")

-----------------------------------------------------------------------------
(* WebSocket connection: lifecycle *)

WSRequests == {q \in Requests : q.id # "2"}

WSFrames == {GarbageFrame} \cup {RequestFrame(q) : q \in WSRequests}

\* a message pushed by a caller other than the read task
EventMsg == Msg(RPCResponse("event", "Success", OkResult), 0)

NoPush == [kind |-> "none", sent |-> FALSE, quit |-> FALSE]

InitWS ==
    /\ wsState = "created"
    /\ quit = FALSE
    /\ writeChan = <<>>
    /\ readPC = "none"
    /\ readers = 0
    /\ pending = NoMsg
    /\ curFrame = NoFrame
    /\ curCall = NoCall
    /\ nRead = 0
    /\ respawns = 0
    /\ writePC = "none"
    /\ written = <<>>
    /\ closes = 0
    /\ disconnects = 0
    /\ pongs = <<>>
    /\ pushPC = "idle"
    /\ pushes = 0
    /\ lastPush = NoPush
    /\ handlerPC = "idle"
    /\ silent = FALSE
    /\ readExit = "none"
    /\ writeExit = "none"
    /\ lastPing = ""
    /\ ctx = "nil"

\* BaseService.Stop, its first part: the service is marked stopped, once.
\* The call that finds it running goes on to OnStop and to raise the quit
\* signal; a call that finds it stopped returns at once.
StopWins == wsState = "running"

Stop == wsState' = IF wsState = "running" THEN "stopped" ELSE wsState

\* where a task goes after its call of Stop has marked the service
AfterStop == IF StopWins THEN "onstop" ELSE "return"

\* if wsc.ctx != nil { wsc.cancel() }
Cancel == ctx' = IF ctx # "nil" THEN "cancelled" ELSE ctx

\* a variant of OnStop that leaves the callback out
OnStop_NoCallback == UNCHANGED disconnects /\ Cancel

\* wsConnection.OnStop: the onDisconnect callback, then the context the
\* connection has handed out, if any, is cancelled
OnStop == disconnects' = disconnects + 1 /\ Cancel

\* BaseService.Stop, its second part, by the call that won: OnStop, then the
\* quit channel is closed
StopRest == OnStop /\ quit' = TRUE

\* WebsocketHandler: the upgrade, NewWSConnection, then Start, whose OnStart
\* makes the queue, spawns the read task and runs the write task.
WebsocketHandler ==
    /\ endpoint = "websocket"
    /\ handlerPC = "idle"
    /\ wsState = "created"
    /\ handlerPC' = "serving"
    /\ wsState' = "running"
    /\ writeChan' = <<>>
    /\ readPC' = "top"
    /\ readers' = 1
    /\ writePC' = "select"
    /\ UNCHANGED <<endpoint, httpVars, confVars, bindVars, tokVars,
                   quit, pending, curFrame, curCall, nRead,
                   respawns, written, closes, disconnects,
                   pongs, pushPC, pushes, lastPush, silent,
                   readExit, writeExit, lastPing, ctx>>

\* WebsocketHandler when the upgrade fails: it returns, and no connection is
\* made
UpgradeFails ==
    /\ endpoint = "websocket"
    /\ handlerPC = "idle"
    /\ handlerPC' = "returned"
    /\ UNCHANGED <<endpoint, httpVars, confVars, bindVars, tokVars,
                   wsState, quit, writeChan, readPC, readers,
                   pending, curFrame, curCall, nRead,
                   respawns, writePC, written, closes,
                   disconnects, pongs, pushPC, pushes,
                   lastPush, silent, readExit, writeExit,
                   lastPing, ctx>>

\* a variant of OnStart that runs the write task as a task of its own
HandlerReturn_NoWait ==
    /\ handlerPC = "serving"
    /\ handlerPC' = "returned"
    /\ UNCHANGED <<endpoint, httpVars, confVars, bindVars, tokVars,
                   wsState, quit, writeChan, readPC, readers,
                   pending, curFrame, curCall, nRead,
                   respawns, writePC, written, closes,
                   disconnects, pongs, pushPC, pushes,
                   lastPush, silent, readExit, writeExit,
                   lastPing, ctx>>

\* con.Start() returns: OnStart has run the write task to its end
HandlerReturn ==
    /\ handlerPC = "serving"
    /\ writePC = "done"
    /\ handlerPC' = "returned"
    /\ UNCHANGED <<endpoint, httpVars, confVars, bindVars, tokVars,
                   wsState, quit, writeChan, readPC, readers,
                   pending, curFrame, curCall, nRead,
                   respawns, writePC, written, closes,
                   disconnects, pongs, pushPC, pushes,
                   lastPush, silent, readExit, writeExit,
                   lastPing, ctx>>

\* the peer sends nothing from now on
PeerSilent ==
    /\ wsState = "running"
    /\ ~silent
    /\ silent' = TRUE
    /\ UNCHANGED <<endpoint, httpVars, confVars, bindVars, tokVars,
                   wsState, quit, writeChan, readPC, readers,
                   pending, curFrame, curCall, nRead,
                   respawns, writePC, written, closes,
                   disconnects, pongs, pushPC, pushes,
                   lastPush, handlerPC, readExit, writeExit,
                   lastPing, ctx>>

-----------------------------------------------------------------------------
(* WebSocket connection: the read task *)

\* top of the loop: leave when the quit signal is raised (the deferred
\* function closes the stream), otherwise set the read deadline and read
ReadSelect ==
    /\ readPC = "top"
    /\ IF quit
       THEN /\ readPC' = "done"
            /\ readers' = readers - 1
            /\ closes' = closes + 1
            /\ readExit' = "quit"
       ELSE /\ readPC' = "read"
            /\ UNCHANGED <<readers, closes, readExit>>
    /\ UNCHANGED <<endpoint, httpVars, confVars, bindVars, tokVars,
                   wsState, quit, writeChan, pending,
                   curFrame, curCall, nRead, respawns,
                   writePC, written, disconnects, pongs,
                   pushPC, pushes, lastPush, handlerPC,
                   silent, writeExit, lastPing, ctx>>

\* the loop body has run on frame in, up to its push
Process(in, step) ==
    /\ nRead' = nRead + 1
    /\ IF step.kind = "continue"
       THEN /\ readPC' = "top"
            /\ curFrame' = NoFrame
            /\ curCall' = NoCall
            /\ pending' = NoMsg
       ELSE /\ readPC' = IF step.kind = "panic" THEN "recover" ELSE "push"
            /\ curFrame' = in
            /\ curCall' = step.call
            /\ pending' = Msg(IF step.kind = "panic" THEN RecoveredResponse ELSE step.resp,
                              nRead + 1)

\* ReadMessage returns a data frame, and the loop body runs up to its push
ReadMessage ==
    /\ readPC = "read"
    /\ closes = 0
    /\ ~silent
    /\ nRead < MaxFrames
    /\ \E in \in WSFrames : Process(in, readFrame(in))
    /\ UNCHANGED <<endpoint, httpVars, confVars, bindVars, tokVars,
                   wsState, quit, writeChan, readers,
                   respawns, writePC, written, closes,
                   disconnects, pongs, pushPC, pushes,
                   lastPush, handlerPC, silent, readExit,
                   writeExit, lastPing, ctx>>

\* the application data of the pings the peer sends
Pings == {"a", "b"}

\* select { case pongs <- m: default: }
PingHandler(m) == IF Len(pongs) < 1 THEN Append(pongs, m) ELSE pongs

\* a ping arrives while the task reads: the ping handler offers the reply to
\* the write task without blocking
ReadPing ==
    /\ readPC = "read"
    /\ closes = 0
    /\ ~silent
    /\ \E m \in Pings :
        /\ pongs' = PingHandler(m)
        /\ lastPing' = m
    /\ UNCHANGED <<endpoint, httpVars, confVars, bindVars, tokVars,
                   wsState, quit, writeChan, readPC, readers,
                   pending, curFrame, curCall, nRead,
                   respawns, writePC, written, closes,
                   disconnects, pushPC, pushes, lastPush,
                   handlerPC, silent, readExit, writeExit,
                   ctx>>

\* ReadMessage fails (the peer left, the stream is closed or broken): Stop
ReadError ==
    /\ readPC = "read"
    /\ Stop
    /\ readPC' = AfterStop
    /\ readExit' = "error"
    /\ UNCHANGED <<endpoint, httpVars, confVars, bindVars, tokVars,
                   quit, writeChan, readers, pending,
                   curFrame, curCall, nRead, respawns,
                   writePC, written, closes, disconnects,
                   pongs, pushPC, pushes, lastPush, handlerPC,
                   silent, writeExit, lastPing, ctx>>

\* a variant of the read task that reads again after the deadline
ReadDeadline_Retry ==
    /\ readPC = "read"
    /\ silent
    /\ readPC' = "top"
    /\ readExit' = "deadline"
    /\ UNCHANGED <<endpoint, httpVars, confVars, bindVars, tokVars,
                   wsState, quit, writeChan, readers, pending,
                   curFrame, curCall, nRead, respawns,
                   writePC, written, closes, disconnects,
                   pongs, pushPC, pushes, lastPush, handlerPC,
                   silent, writeExit, lastPing, ctx>>

\* ReadMessage fails on the read deadline: no frame came for readWait
ReadDeadline ==
    /\ readPC = "read"
    /\ silent
    /\ Stop
    /\ readPC' = AfterStop
    /\ readExit' = "deadline"
    /\ UNCHANGED <<endpoint, httpVars, confVars, bindVars, tokVars,
                   quit, writeChan, readers, pending,
                   curFrame, curCall, nRead, respawns,
                   writePC, written, closes, disconnects,
                   pongs, pushPC, pushes, lastPush, handlerPC,
                   silent, writeExit, lastPing, ctx>>

\* the read task's call of Stop runs OnStop and closes the quit channel
ReadOnStop ==
    /\ readPC = "onstop"
    /\ StopRest
    /\ readPC' = "return"
    /\ UNCHANGED <<endpoint, httpVars, confVars, bindVars, tokVars,
                   wsState, writeChan, readers, pending,
                   curFrame, curCall, nRead, respawns,
                   writePC, written, closes, pongs, pushPC,
                   pushes, lastPush, handlerPC, silent,
                   readExit, writeExit, lastPing>>

\* Stop has returned: the task returns, and the deferred function closes the
\* stream
ReadReturn ==
    /\ readPC = "return"
    /\ readPC' = "done"
    /\ readers' = readers - 1
    /\ closes' = closes + 1
    /\ UNCHANGED <<endpoint, httpVars, confVars, bindVars, tokVars,
                   wsState, quit, writeChan, pending,
                   curFrame, curCall, nRead, respawns,
                   writePC, written, disconnects, pongs,
                   pushPC, pushes, lastPush, handlerPC,
                   silent, readExit, writeExit, lastPing,
                   ctx>>

\* the push of the frame's response returns, and the loop continues
ReadPush ==
    /\ readPC = "push"
    /\ \E p \in WriteRPCResponse(pending) : writeChan' = p.chan
    /\ readPC' = "top"
    /\ pending' = NoMsg
    /\ curFrame' = NoFrame
    /\ curCall' = NoCall
    /\ UNCHANGED <<endpoint, httpVars, confVars, bindVars, tokVars,
                   wsState, quit, readers, nRead, respawns,
                   writePC, written, closes, disconnects,
                   pongs, pushPC, pushes, lastPush, handlerPC,
                   silent, readExit, writeExit, lastPing,
                   ctx>>

\* a variant of the deferred function that closes the stream after a panic
\* as it does after a return, and spawns no new read task
ReadRecover_Close ==
    /\ readPC = "recover"
    /\ readPC' = "done"
    /\ readers' = readers - 1
    /\ closes' = closes + 1
    /\ UNCHANGED <<endpoint, httpVars, confVars, bindVars, tokVars,
                   wsState, quit, writeChan, pending,
                   curFrame, curCall, nRead, respawns,
                   writePC, written, disconnects, pongs,
                   pushPC, pushes, lastPush, handlerPC,
                   silent, readExit, writeExit, lastPing,
                   ctx>>

\* a variant of the recovery that spawns the new read task while the
\* panicking one goes on with its loop
ReadRecover_Fork ==
    /\ readPC = "recover"
    /\ \E p \in WriteRPCResponse(pending) : writeChan' = p.chan
    /\ readPC' = "top"
    /\ readers' = readers + 1
    /\ respawns' = respawns + 1
    /\ pending' = NoMsg
    /\ curFrame' = NoFrame
    /\ curCall' = NoCall
    /\ UNCHANGED <<endpoint, httpVars, confVars, bindVars, tokVars,
                   wsState, quit, nRead, writePC,
                   written, closes, disconnects, pongs,
                   pushPC, pushes, lastPush, handlerPC,
                   silent, readExit, writeExit, lastPing,
                   ctx>>

\* the deferred function after a panic: its push returns, and it spawns a new
\* read task as the panicking one ends
ReadRecover ==
    /\ readPC = "recover"
    /\ \E p \in WriteRPCResponse(pending) : writeChan' = p.chan
    /\ readPC' = "top"
    /\ respawns' = respawns + 1
    /\ pending' = NoMsg
    /\ curFrame' = NoFrame
    /\ curCall' = NoCall
    /\ UNCHANGED <<endpoint, httpVars, confVars, bindVars, tokVars,
                   wsState, quit, readers, nRead, writePC,
                   written, closes, disconnects, pongs,
                   pushPC, pushes, lastPush, handlerPC,
                   silent, readExit, writeExit, lastPing,
                   ctx>>

-----------------------------------------------------------------------------
(* WebSocket connection: the write task *)

\* case m := <-pongs: the reply is written; a failure is only logged
WritePong ==
    /\ writePC = "select"
    /\ Len(pongs) > 0
    /\ pongs' = Tail(pongs)
    /\ lastPing' = ""
    /\ UNCHANGED <<endpoint, httpVars, confVars, bindVars, tokVars,
                   wsState, quit, writeChan, readPC, readers,
                   pending, curFrame, curCall, nRead,
                   respawns, writePC, written, closes,
                   disconnects, pushPC, pushes, lastPush,
                   handlerPC, silent, readExit, writeExit,
                   ctx>>

\* case <-pingTicker.C: the probe is written, or the write fails (an error
\* of the stream, or the write deadline), which stops the connection and
\* ends the task
WritePing ==
    /\ writePC = "select"
    /\ \/ /\ closes = 0
          /\ UNCHANGED <<wsState, writePC, writeExit>>
       \/ /\ Stop
          /\ writePC' = AfterStop
          /\ writeExit' = "ping"
    /\ UNCHANGED <<endpoint, httpVars, confVars, bindVars, tokVars,
                   quit, writeChan, readPC, readers, pending,
                   curFrame, curCall, nRead, respawns,
                   written, closes, disconnects, pongs,
                   pushPC, pushes, lastPush, handlerPC,
                   silent, readExit, lastPing, ctx>>

\* a variant of the write task that only logs a response it could not write
WriteMsg_LogsFailure ==
    /\ writePC = "select"
    /\ Len(writeChan) > 0
    /\ writeChan' = Tail(writeChan)
    /\ \/ /\ closes = 0
          /\ written' = Append(written, Head(writeChan))
          /\ UNCHANGED <<wsState, writePC, writeExit>>
       \/ UNCHANGED <<wsState, writePC, writeExit, written>>
       \/ /\ writeExit' = "msg"
          /\ UNCHANGED <<wsState, writePC, written>>
    /\ UNCHANGED <<endpoint, httpVars, confVars, bindVars, tokVars,
                   quit, readPC, readers, pending, curFrame,
                   curCall, nRead, respawns, closes,
                   disconnects, pongs, pushPC, pushes,
                   lastPush, handlerPC, silent, readExit,
                   lastPing, ctx>>

\* case msg := <-wsc.writeChan: the message is marshalled and written; a
\* marshalling failure is only logged, a write failure stops the connection
\* and ends the task
WriteMsg ==
    /\ writePC = "select"
    /\ Len(writeChan) > 0
    /\ writeChan' = Tail(writeChan)
    /\ \/ /\ closes = 0
          /\ written' = Append(written, Head(writeChan))
          /\ UNCHANGED <<wsState, writePC, writeExit>>
       \/ UNCHANGED <<wsState, writePC, writeExit, written>>
       \/ /\ Stop
          /\ writePC' = AfterStop
          /\ writeExit' = "msg"
          /\ UNCHANGED written
    /\ UNCHANGED <<endpoint, httpVars, confVars, bindVars, tokVars,
                   quit, readPC, readers, pending, curFrame,
                   curCall, nRead, respawns, closes,
                   disconnects, pongs, pushPC, pushes,
                   lastPush, handlerPC, silent, readExit,
                   lastPing, ctx>>

\* the write task's call of Stop runs OnStop and closes the quit channel
WriteOnStop ==
    /\ writePC = "onstop"
    /\ StopRest
    /\ writePC' = "return"
    /\ UNCHANGED <<endpoint, httpVars, confVars, bindVars, tokVars,
                   wsState, writeChan, readPC, readers,
                   pending, curFrame, curCall, nRead,
                   respawns, written, closes, pongs, pushPC,
                   pushes, lastPush, handlerPC, silent,
                   readExit, writeExit, lastPing>>

\* a variant of the write task without the deferred close of the stream
WriteReturn_NoClose ==
    /\ writePC = "return"
    /\ writePC' = "done"
    /\ UNCHANGED <<endpoint, httpVars, confVars, bindVars, tokVars,
                   wsState, quit, writeChan, readPC, readers,
                   pending, curFrame, curCall, nRead,
                   respawns, written, closes, disconnects,
                   pongs, pushPC, pushes, lastPush, handlerPC,
                   silent, readExit, writeExit, lastPing,
                   ctx>>

\* Stop has returned: the task returns, and the deferred function stops the
\* ticker and closes the stream
WriteReturn ==
    /\ writePC = "return"
    /\ writePC' = "done"
    /\ closes' = closes + 1
    /\ UNCHANGED <<endpoint, httpVars, confVars, bindVars, tokVars,
                   wsState, quit, writeChan, readPC, readers,
                   pending, curFrame, curCall, nRead,
                   respawns, written, disconnects, pongs,
                   pushPC, pushes, lastPush, handlerPC,
                   silent, readExit, writeExit, lastPing,
                   ctx>>

\* a variant of the write task that does not watch the quit signal
WriteQuit_Unwatched ==
    /\ writePC = "select"
    /\ quit
    /\ UNCHANGED vars

\* case <-wsc.Quit(): return; the deferred function closes the stream
WriteQuit ==
    /\ writePC = "select"
    /\ quit
    /\ writePC' = "done"
    /\ closes' = closes + 1
    /\ writeExit' = "quit"
    /\ UNCHANGED <<endpoint, httpVars, confVars, bindVars, tokVars,
                   wsState, quit, writeChan, readPC, readers,
                   pending, curFrame, curCall, nRead,
                   respawns, written, disconnects, pongs,
                   pushPC, pushes, lastPush, handlerPC,
                   silent, readExit, lastPing, ctx>>

-----------------------------------------------------------------------------
(* WebSocket connection: pushes by other callers *)

PushRecord(kind, p) == [kind |-> kind, sent |-> p.sent, quit |-> quit]

\* a caller holding the connection makes a best-effort push
TryPush ==
    /\ wsState # "created"
    /\ pushPC = "idle"
    /\ pushes < MaxPushes
    /\ pushes' = pushes + 1
    /\ \E p \in TryWriteRPCResponse(EventMsg) :
        /\ writeChan' = p.chan
        /\ lastPush' = PushRecord("try", p)
    /\ UNCHANGED <<endpoint, httpVars, confVars, bindVars, tokVars,
                   wsState, quit, readPC, readers, pending,
                   curFrame, curCall, nRead, respawns,
                   writePC, written, closes, disconnects,
                   pongs, pushPC, handlerPC, silent, readExit,
                   writeExit, lastPing, ctx>>

\* a caller holding the connection starts a guaranteed-delivery push
PushCall ==
    /\ wsState # "created"
    /\ pushPC = "idle"
    /\ pushes < MaxPushes
    /\ pushes' = pushes + 1
    /\ pushPC' = "pushing"
    /\ UNCHANGED <<endpoint, httpVars, confVars, bindVars, tokVars,
                   wsState, quit, writeChan, readPC, readers,
                   pending, curFrame, curCall, nRead,
                   respawns, writePC, written, closes,
                   disconnects, pongs, lastPush, handlerPC,
                   silent, readExit, writeExit, lastPing,
                   ctx>>

\* the guaranteed-delivery push returns
PushReturn ==
    /\ pushPC = "pushing"
    /\ pushPC' = "idle"
    /\ \E p \in WriteRPCResponse(EventMsg) :
        /\ writeChan' = p.chan
        /\ lastPush' = PushRecord("write", p)
    /\ UNCHANGED <<endpoint, httpVars, confVars, bindVars, tokVars,
                   wsState, quit, readPC, readers, pending,
                   curFrame, curCall, nRead, respawns,
                   writePC, written, closes, disconnects,
                   pongs, pushes, handlerPC, silent, readExit,
                   writeExit, lastPing, ctx>>

-----------------------------------------------------------------------------
(* WebSocket connection: construction and options *)

\* time.Second, in the model's unit of time, a tenth of a second
Second == 10

defaultWSWriteChanCapacity == 1000
defaultWSWriteWait == 10 * Second
defaultWSReadWait == 30 * Second
defaultWSPingPeriod == (defaultWSReadWait * 9) \div 10

\* the fields of wsConnection the options set
Conn(writeWait, writeChanCapacity, readWait, pingPeriod) ==
    [writeWait |-> writeWait, writeChanCapacity |-> writeChanCapacity,
     readWait |-> readWait, pingPeriod |-> pingPeriod]

\* no connection under construction
NoConn == Conn(0, 0, 0, 0)

\* An option is a function on the connection; the model keeps its name and
\* its argument.
Option(name, value) == [name |-> name, value |-> value]

WriteWait(writeWait) == Option("WriteWait", writeWait)
WriteChanCapacity(cap) == Option("WriteChanCapacity", cap)
ReadWait(readWait) == Option("ReadWait", readWait)
PingPeriod(pingPeriod) == Option("PingPeriod", pingPeriod)

\* option(wsc)
ApplyOption(option, c) ==
    IF option.name = "WriteWait" THEN [c EXCEPT !.writeWait = option.value]
    ELSE IF option.name = "WriteChanCapacity" THEN [c EXCEPT !.writeChanCapacity = option.value]
    ELSE IF option.name = "ReadWait" THEN [c EXCEPT !.readWait = option.value]
    ELSE [c EXCEPT !.pingPeriod = option.value]

\* for _, option := range options { option(wsc) }, from option i on
RECURSIVE ApplyOptions(_, _, _)
ApplyOptions(opts, i, c) ==
    IF i > Len(opts) THEN c ELSE ApplyOptions(opts, i + 1, ApplyOption(opts[i], c))

NewWSConnection(opts) ==
    ApplyOptions(opts, 1,
                 Conn(defaultWSWriteWait, defaultWSWriteChanCapacity,
                      defaultWSReadWait, defaultWSPingPeriod))

\* the durations and capacities callers configure
Durations == {1 * Second, 20 * Second, 60 * Second}

Options ==
    {WriteWait(d) : d \in Durations} \cup {ReadWait(d) : d \in Durations}
    \cup {PingPeriod(d) : d \in Durations} \cup {WriteChanCapacity(ChanCap)}

InitConf ==
    /\ options = <<>>
    /\ wsc = NoConn

\* NewWSConnection(baseConn, funcMap, options...)
Construct ==
    /\ endpoint = "config"
    /\ wsc = NoConn
    /\ \E n \in 0..MaxOptions : \E opts \in [1..n -> Options] :
        /\ options' = opts
        /\ wsc' = NewWSConnection(opts)
    /\ UNCHANGED <<endpoint, httpVars, wsVars, bindVars, tokVars>>

NextConf == Construct

-----------------------------------------------------------------------------
(* The argument binders, called on their own *)

\* what a binder is called with: a function and a JSON payload, or a target
\* type and a query value
BindInput(op, method, raw, rt, arg) ==
    [op |-> op, method |-> method, raw |-> raw, rt |-> rt, arg |-> arg]

NoBind == BindInput("none", "", NoParams, "", <<>>)

NoArg == Arg(DecodeError, "none")

\* What came of it: the values bound, what the JSON-RPC loop and the read
\* task make of a request with that payload, and the query argument.
BindOutput(bound, http, ws, arg) == [bound |-> bound, http |-> http, ws |-> ws, arg |-> arg]

NoBound == BindOutput(BindError, Step("continue", NoResponse, NoCall),
                      Step("continue", NoResponse, NoCall), NoArg)

\* the raw values a payload holds: none, "a", "7" and 7
RawValues == {<<>>, QuotedA, Quoted7, Seven}

\* the mappings over the names s and n, each absent or bound to a raw value
MapPayloads ==
    {[n \in D |-> v[n]] : D \in SUBSET {"s", "n"}, v \in [{"s", "n"} -> RawValues]}

ArrayPayloads == UNION {[1..k -> RawValues \ {<<>>}] : k \in 0..MaxParams}

\* the functions the binders are tried on
BindFuncs == {"status", "echo", "pair"}

\* a request with a JSON payload is bound, and served on both transports
BindJSON(method, raw) ==
    /\ bindIn' = BindInput("json", method, raw, "", <<>>)
    /\ bindOut' = BindOutput(jsonParamsToArgs(funcMap[method], raw),
                             jsonrpcRequest(RPCRequest("1", method, raw), RootPath),
                             readFrame(RequestFrame(RPCRequest("1", method, raw))),
                             NoArg)
    /\ UNCHANGED <<endpoint, httpVars, wsVars, confVars, tokVars>>

InitBind ==
    /\ bindIn = NoBind
    /\ bindOut = NoBound

Binding == endpoint = "binder" /\ bindIn = NoBind

\* params is a JSON object
BindMap ==
    /\ Binding
    /\ \E method \in BindFuncs : \E m \in MapPayloads : BindJSON(method, MapParams(m))

\* params is a JSON array
BindArray ==
    /\ Binding
    /\ \E method \in BindFuncs : \E a \in ArrayPayloads : BindJSON(method, ArrayParams(a))

\* params is JSON of another kind
BindOther ==
    /\ Binding
    /\ \E method \in BindFuncs : BindJSON(method, OtherParams)

TargetTypes == {"string", "int64", "bytes", "*string", "*int64", "*bytes"}

\* query values: absent, 7, "a", "7", a, 0x6869, 0X61, 0x6, 0xzz
QueryValues ==
    {<<>>, Seven, QuotedA, Quoted7, <<"a">>,
     <<"0", "x", "6", "8", "6", "9">>, <<"0", "X", "6", "1">>,
     <<"0", "x", "6">>, <<"0", "x", "z", "z">>}

\* one query value is bound to one target type
BindQuery ==
    /\ Binding
    /\ \E rt \in TargetTypes : \E arg \in QueryValues :
        /\ bindIn' = BindInput("query", "", NoParams, rt, arg)
        /\ bindOut' = BindOutput(BindError, Step("continue", NoResponse, NoCall),
                                 Step("continue", NoResponse, NoCall), httpArg(rt, arg))
    /\ UNCHANGED <<endpoint, httpVars, wsVars, confVars, tokVars>>

NextBind == BindMap \/ BindArray \/ BindOther \/ BindQuery

-----------------------------------------------------------------------------
(* WebSocket connection: the context handed to handlers *)

\* wsConnection.Context, called by a holder of the connection: the context
\* is made at the first call, and every call returns wsc.ctx
ContextCall ==
    /\ endpoint = "websocket"
    /\ wsState # "created"
    /\ ctx' = IF ctx # "nil" THEN ctx ELSE "live"
    /\ UNCHANGED <<endpoint, httpVars, confVars, bindVars, tokVars,
                   wsState, quit, writeChan, readPC, readers, pending,
                   curFrame, curCall, nRead, respawns, writePC, written,
                   closes, disconnects, pongs, pushPC, pushes, lastPush,
                   handlerPC, silent, readExit, writeExit, lastPing>>

-----------------------------------------------------------------------------
(* grc20: the token *)

\* the largest uint64, the width scaled down
MaxUint64 == 3
\* calls made to the token in one behaviour
MaxOps == 4

\* x + y and x - y on uint64
Add(x, y) == (x + y) % (MaxUint64 + 1)
Sub(x, y) == (x - y) % (MaxUint64 + 1)

zeroAddress == ""
admin == "admin"
\* the addresses that hold tokens and call the realm
Accounts == {admin, "user"}
\* the addresses a call can name
Addresses == Accounts \cup {zeroAddress}
Amounts == 0..MaxUint64

Token(supply, bal, allow) ==
    [totalSupply |-> supply, balances |-> bal, allowances |-> allow]

NewToken ==
    Token(0, [a \in Accounts |-> 0], [o \in Accounts |-> [s \in Accounts |-> 0]])

\* How a call ends: it returns, or it panics with a message; t is the token
\* as the call leaves it.
Returns(t) == [panic |-> "", t |-> t]
Panics(msg, t) == [panic |-> msg, t |-> t]

checkIsValidAddress(addr) == addr # zeroAddress

mint(t, address, amount) ==
    IF ~checkIsValidAddress(address) THEN Panics("invalid address", t)
    ELSE Returns([t EXCEPT !.totalSupply = Add(@, amount),
                           !.balances[address] = Add(@, amount)])

burn(t, address, amount) ==
    IF ~checkIsValidAddress(address) THEN Panics("invalid address", t)
    ELSE IF t.balances[address] < amount THEN Panics("insufficient balance", t)
    ELSE Returns([t EXCEPT !.totalSupply = Sub(@, amount),
                           !.balances[address] = Sub(@, amount)])

spendAllowance(t, owner, spender, amount) ==
    IF ~checkIsValidAddress(owner) \/ ~checkIsValidAddress(spender)
    THEN Panics("invalid address", t)
    ELSE IF t.allowances[owner][spender] < amount
    THEN Panics("insufficient allowance", t)
    ELSE Returns(t)

\* a variant of transfer that credits the recipient before it checks the
\* balance of the sender
transfer_CreditsFirst(t, from, to, amount) ==
    IF ~checkIsValidAddress(from) \/ ~checkIsValidAddress(to)
    THEN Panics("invalid address", t)
    ELSE IF from = to THEN Panics("cannot send transfer to self", t)
    ELSE IF t.balances[from] < amount
    THEN Panics("insufficient balance",
                [t EXCEPT !.balances[to] = Add(@, amount)])
    ELSE Returns([t EXCEPT !.balances[to] = Add(@, amount),
                           !.balances[from] = Sub(@, amount)])

transfer(t, from, to, amount) ==
    IF ~checkIsValidAddress(from) \/ ~checkIsValidAddress(to)
    THEN Panics("invalid address", t)
    ELSE IF from = to THEN Panics("cannot send transfer to self", t)
    ELSE IF t.balances[from] < amount THEN Panics("insufficient balance", t)
    ELSE Returns([t EXCEPT !.balances[to] = Add(@, amount),
                           !.balances[from] = Sub(@, amount)])

approve(t, owner, spender, amount) ==
    IF ~checkIsValidAddress(owner) \/ ~checkIsValidAddress(spender)
    THEN Panics("invalid address", t)
    ELSE Returns([t EXCEPT !.allowances[owner][spender] = amount])

\* t.transfer after t.spendAllowance has returned
transferAfter(spend, from, to, amount) ==
    IF spend.panic # "" THEN spend ELSE transfer(spend.t, from, to, amount)

\* Token.TransferFrom
TokenTransferFrom(t, spender, from, to, amount) ==
    transferAfter(spendAllowance(t, from, spender, amount), from, to, amount)

-----------------------------------------------------------------------------
(* foo20: the realm that holds a token; one action per exported function *)

assertIsAdmin(address) == address = admin

NoOp == [op |-> "none", panic |-> ""]

\* the token as NewToken makes it; the mints of the realm's init() are calls
\* of Mint by the admin
InitToken ==
    /\ totalSupply = NewToken.totalSupply
    /\ balances = NewToken.balances
    /\ allowances = NewToken.allowances
    /\ lastOp = NoOp
    /\ spent = [o \in Accounts |-> [s \in Accounts |-> 0]]
    /\ nOps = 0

\* the token of the realm
Foo == Token(totalSupply, balances, allowances)

Calling == endpoint = "token" /\ nOps < MaxOps

\* A call of the realm has ended: the token is as the call left it.
Called(op, r) ==
    /\ totalSupply' = r.t.totalSupply
    /\ balances' = r.t.balances
    /\ allowances' = r.t.allowances
    /\ lastOp' = [op |-> op, panic |-> r.panic]
    /\ nOps' = nOps + 1
    /\ UNCHANGED <<endpoint, httpVars, wsVars, confVars, bindVars>>

Transfer ==
    /\ Calling
    /\ \E caller \in Accounts, to \in Addresses, amount \in Amounts :
        Called("Transfer", transfer(Foo, caller, to, amount))
    /\ UNCHANGED spent

Approve ==
    /\ Calling
    /\ \E caller \in Accounts, spender \in Addresses, amount \in Amounts :
        /\ Called("Approve", approve(Foo, caller, spender, amount))
        /\ spent' = IF approve(Foo, caller, spender, amount).panic = ""
                    THEN [spent EXCEPT ![caller][spender] = 0]
                    ELSE spent

TransferFrom ==
    /\ Calling
    /\ \E caller \in Accounts, from \in Addresses, to \in Addresses,
          amount \in Amounts :
        /\ Called("TransferFrom", TokenTransferFrom(Foo, caller, from, to, amount))
        /\ spent' = IF TokenTransferFrom(Foo, caller, from, to, amount).panic = ""
                    THEN [spent EXCEPT ![from][caller] = @ + amount]
                    ELSE spent

Mint ==
    /\ Calling
    /\ \E caller \in Accounts, address \in Addresses, amount \in Amounts :
        Called("Mint", IF assertIsAdmin(caller)
                       THEN mint(Foo, address, amount)
                       ELSE Panics("restricted access", Foo))
    /\ UNCHANGED spent

Burn ==
    /\ Calling
    /\ \E caller \in Accounts, address \in Addresses, amount \in Amounts :
        Called("Burn", IF assertIsAdmin(caller)
                       THEN burn(Foo, address, amount)
                       ELSE Panics("restricted access", Foo))
    /\ UNCHANGED spent

NextToken == Transfer \/ Approve \/ TransferFrom \/ Mint \/ Burn

-----------------------------------------------------------------------------
(* The steps of a connection *)

\* the connection and its peer
NextConn ==
    \/ WebsocketHandler \/ UpgradeFails \/ HandlerReturn \/ PeerSilent
    \/ ReadSelect \/ ReadMessage \/ ReadPing \/ ReadError \/ ReadDeadline
    \/ ReadOnStop \/ ReadReturn \/ ReadPush \/ ReadRecover
    \/ WritePong \/ WritePing \/ WriteMsg \/ WriteOnStop \/ WriteReturn \/ WriteQuit

\* the connection, its peer, and a caller that pushes to it
NextWS == NextConn \/ TryPush \/ PushCall \/ PushReturn

-----------------------------------------------------------------------------
(* Specifications *)

\* every part of the model starts as constructed; a behaviour then
\* exercises the part its endpoint names
InitRest == InitHTTP /\ InitWS /\ InitConf /\ InitBind /\ InitToken

Init ==
    /\ endpoint \in {"http", "websocket", "config", "binder", "token"}
    /\ InitRest

Next == NextHTTP \/ NextWS \/ ContextCall \/ NextConf \/ NextBind \/ NextToken

Spec == Init /\ [][Next]_vars

\* the endpoints of the server, HTTP and WebSocket, with no caller that
\* pushes to a connection from outside its tasks
InitServe == endpoint \in {"http", "websocket"} /\ InitRest

SpecServe == InitServe /\ [][NextHTTP \/ NextConn]_vars

\* the HTTP endpoints alone
InitRPC == endpoint = "http" /\ InitRest

SpecRPC == InitRPC /\ [][NextHTTP]_vars

\* one WebSocket connection alone
InitConn == endpoint = "websocket" /\ InitRest

SpecWS == InitConn /\ [][NextWS]_vars

\* one WebSocket connection that only its own tasks write to
SpecConn == InitConn /\ [][NextConn]_vars

\* The tasks of a connection are scheduled: a step of the read task, of the
\* write task or of the accepting task that stays possible is taken, and the
\* read deadline of a silent peer expires.
ConnFairness ==
    /\ WF_vars(ReadSelect) /\ WF_vars(ReadDeadline) /\ WF_vars(ReadOnStop)
    /\ WF_vars(ReadReturn) /\ WF_vars(ReadPush) /\ WF_vars(ReadRecover)
    /\ WF_vars(WriteMsg) /\ WF_vars(WriteOnStop) /\ WF_vars(WriteReturn)
    /\ WF_vars(WriteQuit) /\ WF_vars(HandlerReturn)

SpecConnLive == InitConn /\ [][NextConn]_vars /\ ConnFairness

\* A connection whose peer sends no pings, with a caller that makes
\* guaranteed-delivery pushes from outside its tasks; the tasks and the
\* caller are scheduled.
NextPush ==
    \/ WebsocketHandler \/ UpgradeFails \/ HandlerReturn \/ PeerSilent
    \/ ReadSelect \/ ReadMessage \/ ReadError \/ ReadDeadline
    \/ ReadOnStop \/ ReadReturn \/ ReadPush \/ ReadRecover
    \/ WritePing \/ WriteMsg \/ WriteOnStop \/ WriteReturn \/ WriteQuit
    \/ PushCall \/ PushReturn

SpecPushLive ==
    InitConn /\ [][NextPush]_vars /\ ConnFairness /\ WF_vars(PushReturn)

\* a read that blocks returns once the stream has been closed
ReadClosed == closes > 0 /\ ReadError

\* one connection whose tasks are scheduled and whose blocking reads return
SpecStopLive ==
    InitConn /\ [][NextConn]_vars /\ ConnFairness /\ WF_vars(ReadClosed)

\* one connection whose context its holders ask for
SpecCtx == InitConn /\ [][NextConn \/ ContextCall]_vars

\* the token of the foo20 realm alone
InitFoo == endpoint = "token" /\ InitRest

SpecToken == InitFoo /\ [][NextToken]_vars

\* the construction of a connection alone
InitOptions == endpoint = "config" /\ InitRest

SpecConf == InitOptions /\ [][NextConf]_vars

\* the argument binders alone
InitBinder == endpoint = "binder" /\ InitRest

SpecBind == InitBinder /\ [][NextBind]_vars

-----------------------------------------------------------------------------
(* Properties of the HTTP endpoints and of the dispatch *)

\* a request whose body could be read has been served at the JSON-RPC
\* endpoint, path "/"
AtJSONRPC ==
    /\ endpoint = "http"
    /\ httpOut # Idle
    /\ httpReq.path = RootPath
    /\ httpReq.body.kind # "unreadable"

\* the body decodes, as an array of requests or as one request
Decodes(b) == ~UnmarshalRequests(b).err \/ ~UnmarshalRequest(b).err

DecodedRequests(b) ==
    IF ~UnmarshalRequests(b).err
    THEN UnmarshalRequests(b).requests
    ELSE UnmarshalRequest(b).requests

IsRequest(q) == q.id # ""

\* the requests of the served body that are no notifications, in input order
NonNotif == SelectSeq(DecodedRequests(httpReq.body), IsRequest)

\* a batch has been decoded and its loop has run, to its end or to a panic
BatchServed == AtJSONRPC /\ httpReq.body.kind # "empty" /\ Decodes(httpReq.body)

\* The j-th response the loop emitted answers the j-th request that is no
\* notification: the loop emits at most one response per request, in order.
Aligned ==
    /\ Len(httpEmit) <= Len(NonNotif)
    /\ \A j \in 1..Len(httpEmit) : httpEmit[j].id = NonNotif[j].id

\* the loop ran to its end and wrote what it emitted
Completed ==
    /\ Len(httpEmit) = Len(NonNotif)
    /\ httpOut = IF httpEmit = <<>> THEN NothingWritten ELSE WriteRPCResponseArrayHTTP(httpEmit)

\* a per-method endpoint has served a request
AtMethodPath ==
    /\ endpoint = "http"
    /\ httpOut # Idle
    /\ Len(httpReq.path) = 2
    /\ httpReq.path[2] \in Registered

\* the frame the read task read is a request that is no notification
FrameInHand ==
    /\ endpoint = "websocket"
    /\ curFrame.kind = "request"
    /\ curFrame.request.id # ""

\* binding the params of request q to the arguments of its function fails
BindFails(q) ==
    HasParams(q.params) /\ jsonParamsToArgs(funcMap[q.method], q.params).err

\* C1: at the JSON-RPC endpoint, for every decoded batch, the responses
\* written hold no entry for a request with an empty id and exactly one entry,
\* carrying its id, for each request with a non-empty id, in input order; when
\* every request is a notification nothing is written.
C1_BatchResponses ==
    BatchServed =>
        /\ Len(httpOut.resps) = Len(NonNotif)
        /\ \A j \in 1..Len(httpOut.resps) : httpOut.resps[j].id = NonNotif[j].id
        /\ (NonNotif = <<>> => httpOut = NothingWritten)

\* C2, as claimed: every body that decodes neither as an array of requests nor
\* as one request gets exactly one ParseError response with an empty id, and
\* no handler is invoked.
C2_Original ==
    (AtJSONRPC /\ ~Decodes(httpReq.body)) =>
        /\ httpOut = WriteRPCResponseHTTP(RPCParseError(""))
        /\ httpCalls = <<>>

\* C2, amended: every non-empty body that decodes neither as an array of
\* requests nor as one request gets exactly one ParseError response with an
\* empty id, and no handler is invoked; an empty body gets the listing of
\* endpoints and no response.
C2_ParseError ==
    /\ (AtJSONRPC /\ httpReq.body.kind # "empty" /\ ~Decodes(httpReq.body)) =>
          /\ httpOut = WriteRPCResponseHTTP(RPCParseError(""))
          /\ httpCalls = <<>>
    /\ (AtJSONRPC /\ httpReq.body.kind = "empty") =>
          /\ httpOut = Written("listing", <<>>)
          /\ httpCalls = <<>>

C2_Witness ==
    /\ AtJSONRPC
    /\ httpReq.body = GarbageBody
    /\ httpOut.kind = "single"
    /\ httpOut.resps[1].class = "ParseError"

\* C3: a request with a non-empty id whose method is not registered is
\* answered MethodNotFound with the request's id, and no handler is invoked
\* for it: at the JSON-RPC endpoint the response emitted for it (which is
\* written when the loop runs to its end, as it does unless a call panics)
\* and on a WebSocket connection the response the read task pushes.
C3_MethodNotFound ==
    /\ BatchServed =>
          /\ Aligned
          /\ \A j \in 1..Len(httpEmit) :
                NonNotif[j].method \notin Registered =>
                    httpEmit[j] = RPCMethodNotFoundError(NonNotif[j].id)
          /\ \A k \in 1..Len(httpCalls) : httpCalls[k].method \in Registered
          /\ (httpOut.kind # "panic" => Completed)
    /\ (FrameInHand /\ curFrame.request.method \notin Registered) =>
          /\ readPC = "push"
          /\ pending.resp = RPCMethodNotFoundError(curFrame.request.id)
          /\ curCall = NoCall

C3_Witness ==
    /\ BatchServed
    /\ httpOut.kind = "array"
    /\ Len(httpOut.resps) = 2
    /\ httpReq.body.reqs[1].id = ""
    /\ httpOut.resps[2] = RPCMethodNotFoundError("2")

\* C4: a WebSocket-only function is never called through HTTP: a JSON-RPC
\* request naming it is answered MethodNotFound with the request's id, a
\* request to its path /<name> is answered MethodNotFound; on a WebSocket
\* connection a request naming it, with params that bind, calls it.
C4_WebSocketOnly ==
    /\ \A k \in 1..Len(httpCalls) : ~funcMap[httpCalls[k].method].ws
    /\ BatchServed =>
          /\ Aligned
          /\ \A j \in 1..Len(httpEmit) :
                (NonNotif[j].method \in Registered /\ funcMap[NonNotif[j].method].ws) =>
                    httpEmit[j] = RPCMethodNotFoundError(NonNotif[j].id)
          /\ (httpOut.kind # "panic" => Completed)
    /\ (AtMethodPath /\ funcMap[httpReq.path[2]].ws) =>
          /\ httpOut.kind = "single"
          /\ httpOut.resps[1].class = "MethodNotFound"
          /\ httpCalls = <<>>
    /\ (/\ FrameInHand
        /\ curFrame.request.method \in Registered
        /\ funcMap[curFrame.request.method].ws
        /\ ~BindFails(curFrame.request)) =>
          /\ curCall.method = curFrame.request.method
          /\ curCall.args[1] = Context

C4_Witness ==
    /\ FrameInHand
    /\ curFrame.request.method = "subscribe"
    /\ curCall.invoked
    /\ readPC = "push"
    /\ pending.resp.class = "Success"

\* the function of call record c returns a non-nil error
ReturnsError(c) == c.invoked /\ funcMap[c.method].f = "error"

\* C5: when an invoked handler returns a non-nil error, exactly one response
\* is emitted for the request, of class InternalError and never Success; the
\* error is not turned into a panic, and the requests after it are processed.
C5_HandlerError ==
    /\ BatchServed =>
          /\ Aligned
          /\ \A j \in 1..Len(httpEmit) :
                (/\ NonNotif[j].method \in Registered
                 /\ funcMap[NonNotif[j].method].f = "error"
                 /\ ~funcMap[NonNotif[j].method].ws
                 /\ ~BindFails(NonNotif[j])) =>
                    httpEmit[j] = RPCInternalError(NonNotif[j].id)
          /\ (httpOut.kind # "panic" => Completed)
          /\ (httpOut.kind = "panic" => ~ReturnsError(httpCalls[Len(httpCalls)]))
    /\ (AtMethodPath /\ httpCalls # <<>> /\ ReturnsError(httpCalls[1])) =>
          httpOut = WriteRPCResponseHTTP(RPCInternalError(""))
    /\ (FrameInHand /\ ReturnsError(curCall)) =>
          /\ readPC = "push"
          /\ pending.resp = RPCInternalError(curFrame.request.id)
          /\ readers = 1

C5_Witness ==
    /\ BatchServed
    /\ httpOut.kind = "array"
    /\ Len(httpOut.resps) = 2
    /\ httpCalls # <<>>
    /\ ReturnsError(httpCalls[1])
    /\ httpOut.resps[1] = RPCInternalError("1")
    /\ httpOut.resps[2].class = "Success"

\* C6: on every transport, a failure to bind the request's params to the
\* function's arguments is answered with a response of class InvalidParams,
\* and the handler is not invoked.
C6_BindFailure ==
    /\ BatchServed =>
          /\ Aligned
          /\ \A j \in 1..Len(httpEmit) :
                (/\ NonNotif[j].method \in Registered
                 /\ ~funcMap[NonNotif[j].method].ws
                 /\ BindFails(NonNotif[j])) =>
                    httpEmit[j] = RPCInvalidParamsError(NonNotif[j].id)
    /\ (/\ AtMethodPath
        /\ ~funcMap[httpReq.path[2]].ws
        /\ httpParamsToArgs(funcMap[httpReq.path[2]], httpReq.query).err) =>
          /\ httpOut = WriteRPCResponseHTTP(RPCInvalidParamsError(""))
          /\ httpCalls = <<>>
    /\ (/\ FrameInHand
        /\ curFrame.request.method \in Registered
        /\ BindFails(curFrame.request)) =>
          /\ pending.resp.class = "InvalidParams"
          /\ curCall = NoCall

\* C7: every Failure response produced at the JSON-RPC endpoint or on a
\* WebSocket connection carries the id of the request that caused it, or the
\* empty string; no other id is used.
C7_FailureIds ==
    /\ BatchServed =>
          /\ Aligned
          /\ \A j \in 1..Len(httpOut.resps) :
                httpOut.resps[j].class \in FailureClasses =>
                    httpOut.resps[j].id \in {NonNotif[j].id, ""}
    /\ (endpoint = "http" /\ httpReq.path = RootPath /\ httpOut.kind = "single") =>
          httpOut.resps[1].id = ""
    /\ (endpoint = "websocket" /\ pending.resp.class \in FailureClasses) =>
          pending.resp.id \in {curFrame.request.id, ""}

-----------------------------------------------------------------------------
(* Properties of a WebSocket connection *)

\* a best-effort push by another caller returns in this step
TryReturns == pushes' = pushes + 1 /\ pushPC' = "idle"

\* a guaranteed-delivery push by another caller returns in this step
WriteReturns == pushPC = "pushing" /\ pushPC' = "idle"

\* the read task's push of a response returns in this step
ReadPushReturns == readPC \in {"push", "recover"} /\ readPC' # readPC

\* the queue gains msg at its tail, once
Enqueued(msg) == writeChan' = Append(writeChan, msg)

C8_Step ==
    /\ TryReturns =>
          /\ lastPush'.kind = "try"
          /\ (Len(writeChan) = ChanCap => ~lastPush'.sent)
          /\ IF lastPush'.sent THEN Enqueued(EventMsg) ELSE writeChan' = writeChan
    /\ WriteReturns =>
          /\ lastPush'.kind = "write"
          /\ IF lastPush'.sent THEN Enqueued(EventMsg) ELSE quit /\ writeChan' = writeChan
    /\ ReadPushReturns =>
          \/ Enqueued(pending)
          \/ quit /\ writeChan' = writeChan

C8_State ==
    /\ (wsState # "created" /\ pushPC = "idle" /\ pushes < MaxPushes) => ENABLED TryPush
    /\ (pushPC = "pushing" /\ Len(writeChan) = ChanCap /\ ~quit) => ~ENABLED PushReturn
    /\ (readPC = "push" /\ Len(writeChan) = ChanCap /\ ~quit) => ~ENABLED ReadPush

\* C8: a best-effort push (TryWriteRPCResponse) is never blocked; when the
\* queue is full it returns false and leaves the queue unchanged, and when it
\* returns true it has put its message on the queue exactly once. A
\* guaranteed-delivery push (WriteRPCResponse) is blocked while the queue is
\* full and quit is not raised, and returns only with its message put on the
\* queue or with quit raised.
C8_Pushes == []C8_State /\ [][C8_Step]_vars

C8_Witness ==
    /\ lastPush.kind = "try"
    /\ ~lastPush.sent
    /\ ~lastPush.quit
    /\ Len(writeChan) = ChanCap
    /\ pushes = 1

\* the responses to frames, in the order in which they have left or will
\* leave: those written, those on the queue, the one the read task is pushing
InFlight ==
    written \o writeChan \o (IF readPC \in {"push", "recover"} THEN <<pending>> ELSE <<>>)

IsFrameResponse(m) == m.src > 0

C9_State ==
    /\ readers <= 1
    /\ (readPC \in {"push", "recover"} => pending.src = nRead)
    /\ LET out == SelectSeq(InFlight, IsFrameResponse)
       IN  \A i, j \in 1..Len(out) : i < j => out[i].src < out[j].src

C9_Step ==
    /\ nRead' \in {nRead, nRead + 1}
    /\ written' # written =>
          /\ writeChan # <<>>
          /\ written' = Append(written, Head(writeChan))
          /\ writeChan' = Tail(writeChan)
    /\ writeChan' # writeChan =>
          \/ writeChan # <<>> /\ writeChan' = Tail(writeChan)
          \/ /\ Len(writeChan') = Len(writeChan) + 1
             /\ SubSeq(writeChan', 1, Len(writeChan)) = writeChan

\* C9: on one connection a single read task processes the frames in arrival
\* order, and the responses to two requests leave in the order the requests
\* arrived, also when the first one's processing panicked and the read task
\* was respawned; the write task sends the messages of the queue in the order
\* they were put on it.
C9_Order == []C9_State /\ [][C9_Step]_vars

C9_Witness ==
    /\ Len(written) = 2
    /\ written[1] = Msg(RecoveredResponse, 1)
    /\ written[2].src = 2
    /\ respawns = 1

C10_State ==
    readPC = "recover" =>
        /\ pending.resp = RPCResponse("unknown", "InternalError", NoResult)
        /\ readers = 1

C10_Step ==
    /\ (readPC # "recover" /\ readPC' = "recover") =>
          /\ UNCHANGED <<wsState, quit, closes, disconnects, readers, respawns>>
          /\ writeChan' = writeChan
    /\ (readPC = "recover" /\ readPC' # "recover") =>
          /\ readPC' = "top"
          /\ respawns' = respawns + 1
          /\ UNCHANGED <<wsState, quit, closes, disconnects, readers, nRead>>
          /\ \/ Enqueued(pending)
             \/ quit /\ writeChan' = writeChan
    /\ respawns' # respawns => readPC = "recover"

\* C10: a panic while the read task processes a frame becomes one
\* InternalError response, pushed with the guaranteed-delivery push (it is
\* put on the queue once unless quit is raised); the read task is then
\* respawned at the top of its loop, from where it processes later frames;
\* the panic and its recovery leave the connection running and the stream
\* open.
C10_Recovery == []C10_State /\ [][C10_Step]_vars

C10_Witness ==
    /\ respawns = 1
    /\ readPC = "push"
    /\ pending.src = 2
    /\ pending.resp.class = "Success"
    /\ wsState = "running"
    /\ ~quit
    /\ closes = 0

-----------------------------------------------------------------------------
(* Properties of the catch-all endpoint *)

\* a request has been served by the catch-all endpoint at a path other than /
OffRoot ==
    /\ endpoint = "http"
    /\ httpOut # Idle
    /\ ~AtMethodPath
    /\ httpReq.path # RootPath

\* C17: a request that reaches the catch-all endpoint at a path other than /
\* is answered with the transport's not-found: its body is not decoded, no
\* handler is invoked and no JSON-RPC response is made.
C17_NotFound ==
    OffRoot =>
        /\ httpOut = Written("notfound", <<>>)
        /\ httpEmit = <<>>
        /\ httpCalls = <<>>

C17_Witness ==
    /\ OffRoot
    /\ httpReq.body = ObjectBody(RPCRequest("1", "echo", ArrayParams(<<QuotedA>>)))
    /\ httpOut.kind = "notfound"

-----------------------------------------------------------------------------
(* Properties of the life of a connection *)

ReadFailed == readExit \in {"error", "deadline"}

WriteFailed == writeExit \in {"ping", "msg"}

\* C11: a running connection whose peer sends no frame any more, data or
\* control, is stopped in the end: the read fails on the deadline, Stop is
\* called, and the connection is stopped with its stream closed.
C11_ReadDeadline ==
    (silent /\ wsState = "running") ~> (wsState = "stopped" /\ closes >= 1)

C11_Witness ==
    /\ silent
    /\ readExit = "deadline"
    /\ writeExit = "quit"
    /\ wsState = "stopped"
    /\ readPC = "done"
    /\ closes >= 1

C12_State ==
    /\ disconnects <= 1
    /\ disconnects = 1 => wsState = "stopped"
    /\ quit => disconnects = 1
    /\ (readPC = "done" /\ writePC = "done") => disconnects = 1

C12_Step == disconnects' # disconnects => (wsState = "stopped" /\ disconnects' = 1)

\* C12: whatever stops the connection (a read error, the read deadline, a
\* probe or a response that cannot be written), and also when both tasks call
\* Stop, onDisconnect is called exactly once, and never while the connection
\* is running.
C12_Disconnect == []C12_State /\ [][C12_Step]_vars

C12_Witness ==
    /\ ReadFailed
    /\ WriteFailed
    /\ readPC = "done"
    /\ writePC = "done"
    /\ disconnects = 1

\* C13 as stated: the stream is closed once in the life of a connection.
C13_Original == closes <= 1

Exited(pc) == IF pc = "done" THEN 1 ELSE 0

\* C13: each task closes the stream when it ends and at no other time: one
\* close for the read task and one for the write task, two in the life of a
\* connection that has stopped.
C13_Closes ==
    /\ closes = Exited(readPC) + Exited(writePC)
    /\ closes <= 2

C13_Witness ==
    /\ closes = 2
    /\ wsState = "stopped"
    /\ ReadFailed
    /\ writeExit = "quit"

C14_State ==
    WriteFailed =>
        /\ wsState = "stopped"
        /\ writePC \in {"onstop", "return", "done"}

C14_Step == WriteFailed => (written' = written /\ writePC' # "select")

\* C14: a probe or a response the write task cannot write (an error of the
\* stream or the write deadline) ends it: the task calls Stop and returns,
\* and nothing more is written on the connection.
C14_WriteFailure == []C14_State /\ [][C14_Step]_vars

C14_Witness ==
    /\ WriteFailed
    /\ writePC = "done"
    /\ wsState = "stopped"
    /\ written # <<>>
    /\ writeChan # <<>>

C16_Step ==
    (handlerPC = "serving" /\ handlerPC' = "returned") =>
        (wsState = "stopped" /\ writePC = "done")

\* C16: WebsocketHandler returns to its caller only when the connection it
\* started is stopped, and never while it is running.
C16_Accept ==
    /\ [](handlerPC = "returned" => wsState # "running")
    /\ [](handlerPC = "serving" => wsState # "created")
    /\ [][C16_Step]_vars

C16_Witness ==
    /\ handlerPC = "returned"
    /\ wsState = "stopped"
    /\ nRead > 0

-----------------------------------------------------------------------------
(* Properties of a connection's configuration *)

Given(name) == \E i \in 1..Len(options) : options[i].name = name

\* C15: whichever of the options ReadWait and PingPeriod a connection is
\* built with, its pingPeriod is less than its readWait, and without the
\* option PingPeriod it is 9/10 of its readWait.
C15_PingPeriod ==
    wsc # NoConn =>
        /\ wsc.pingPeriod < wsc.readWait
        /\ ~Given("PingPeriod") => wsc.pingPeriod = (wsc.readWait * 9) \div 10

-----------------------------------------------------------------------------
(* Properties of the argument binders *)

\* the function a JSON payload was bound for, its payload and the outcome
BoundFunc == funcMap[bindIn.method]

MapBound == endpoint = "binder" /\ bindIn.op = "json" /\ bindIn.raw.kind = "map"

ArrayBound == endpoint = "binder" /\ bindIn.op = "json" /\ bindIn.raw.kind = "array"

\* the mapping holds the i-th declared name with a raw value that is not empty
Holds(m, i) == BoundFunc.argNames[i] \in DOMAIN m /\ m[BoundFunc.argNames[i]] # <<>>

\* the raw value of the i-th declared name decodes into the i-th type
MapDecoded(m, i) == UnmarshalJSON(m[BoundFunc.argNames[i]], BoundFunc.args[i + 1])

C18_Binds(m, out) ==
    /\ out.err <=> \E i \in 1..Len(BoundFunc.argNames) : Holds(m, i) /\ MapDecoded(m, i).err
    /\ ~out.err =>
        /\ Len(out.values) = Len(BoundFunc.argNames)
        /\ \A i \in 1..Len(BoundFunc.argNames) :
            out.values[i] = IF Holds(m, i) THEN MapDecoded(m, i).val
                            ELSE ZeroValue(BoundFunc.args[i + 1])

\* C18: binding from a mapping gives one value for each declared name, in
\* the order of declaration: the zero value of its type for a name the
\* mapping lacks or holds with an empty raw value, the decoded value
\* otherwise; it fails only when a raw value that is not empty fails to decode.
C18_Mapping == MapBound => C18_Binds(bindIn.raw.m, bindOut.bound)

C18_Witness ==
    /\ MapBound
    /\ bindIn.method = "pair"
    /\ DOMAIN bindIn.raw.m = {"n"}
    /\ bindOut.bound = Bound(<<StringValue(<<>>), [t |-> "int64", v |-> <<"7">>]>>)

ArrayDecoded(a, i) == UnmarshalJSON(a[i], BoundFunc.args[i + 1])

C19_Binds(a, out) ==
    IF Len(a) # Len(BoundFunc.argNames)
    THEN /\ out.bound.err
         /\ out.http.call = NoCall
         /\ out.ws.call = NoCall
    ELSE /\ out.bound.err <=> \E i \in 1..Len(a) : ArrayDecoded(a, i).err
         /\ ~out.bound.err =>
             /\ Len(out.bound.values) = Len(a)
             /\ \A i \in 1..Len(a) : out.bound.values[i] = ArrayDecoded(a, i).val

\* C19: binding from a sequence fails when the sequence is shorter or longer
\* than the declared parameters, and the handler is not invoked then; with
\* equal lengths the i-th element is bound to the i-th declared parameter.
C19_Sequence == ArrayBound => C19_Binds(bindIn.raw.a, bindOut)

C19_Witness ==
    /\ ArrayBound
    /\ bindIn.method = "pair"
    /\ bindIn.raw.a = <<QuotedA>>
    /\ bindOut.bound = BindError
    /\ bindOut.http.resp.class = "InvalidParams"

\* one query value has been bound to one target type
QueryBound == endpoint = "binder" /\ bindIn.op = "query"

\* the shapes of a query value
IntegerLiteral(arg) ==
    \/ arg # <<>> /\ \A i \in 1..Len(arg) : arg[i] \in Digits
    \/ Len(arg) >= 2 /\ arg[1] = "-" /\ \A i \in 2..Len(arg) : arg[i] \in Digits

\* 0x, in either case of the x
ZeroXPrefixed(arg) == Len(arg) >= 2 /\ arg[1] = "0" /\ arg[2] \in {"x", "X"}

QuoteDelimited(arg) == arg # <<>> /\ arg[1] = "\"" /\ arg[Len(arg)] = "\""

\* the rule the precedence picks for a value and the type the target holds
C20_Rule(elem, arg) ==
    IF arg = <<>> THEN "zero"
    ELSE IF IntegerLiteral(arg) /\ elem = "int64" THEN "int"
    ELSE IF ZeroXPrefixed(arg) THEN "hex"
    ELSE IF QuoteDelimited(arg) /\ elem = "bytes" THEN "quoted"
    ELSE "json"

\* an optional target holds a pointer to the value
ForTarget(rt, dec) == IF IsPtr(rt) THEN BoxedIf(dec) ELSE dec

HexDecoded(elem, hex) ==
    IF elem \notin {"string", "bytes"} \/ hex.err THEN DecodeError
    ELSE Decoded([t |-> elem, v |-> hex.bytes])

AsBytes(str) == IF str.err THEN DecodeError ELSE Decoded([t |-> "bytes", v |-> str.val.v])

\* what each rule gives
C20_Outcome(rule, rt, arg) ==
    IF rule = "zero" THEN Decoded(ZeroValue(rt))
    ELSE IF rule = "int"
    THEN ForTarget(rt, UnmarshalJSON(<<"\"">> \o arg \o <<"\"">>, Elem(rt)))
    ELSE IF rule = "hex"
    THEN ForTarget(rt, HexDecoded(Elem(rt), HexDecodeString(SubSeq(arg, 3, Len(arg)))))
    ELSE IF rule = "quoted" THEN ForTarget(rt, AsBytes(UnmarshalJSON(arg, "string")))
    ELSE UnmarshalJSON(arg, rt)

C20_Binds(rule, rt, arg, out) ==
    /\ out.rule = rule
    /\ out.err = C20_Outcome(rule, rt, arg).err
    /\ out.val = C20_Outcome(rule, rt, arg).val

\* C20: the binder picks the rule for a query value by a fixed precedence
\* over the value's shape and the target type: an integer literal for a
\* numeric target is decoded as a quoted JSON integer; otherwise a value that
\* starts with 0x is hex-decoded for a string or byte-sequence target and is
\* an error for any other target, never JSON-decoded; otherwise a value
\* between quotes for a byte-sequence target is decoded as a JSON string and
\* given as bytes; otherwise the value is decoded as JSON. An empty or absent
\* value gives the zero value (no value for an optional target), undecoded.
C20_Precedence ==
    QueryBound =>
        C20_Binds(C20_Rule(Elem(bindIn.rt), bindIn.arg), bindIn.rt, bindIn.arg, bindOut.arg)

C20_Witness ==
    /\ QueryBound
    /\ bindIn.rt = "int64"
    /\ bindIn.arg = <<"0", "x", "6", "8", "6", "9">>
    /\ bindOut.arg.rule = "hex"
    /\ bindOut.arg.err

-----------------------------------------------------------------------------
(* Properties of the request path and of the arguments of a call *)

\* C22: every request with an id that reaches the JSON-RPC endpoint, as
\* RegisterRPCFuncs installs it, at a path longer than "/" is answered with
\* InvalidRequest carrying its id, and no handler is invoked for it.
C22_InvalidRequest ==
    (OffRoot /\ Decodes(httpReq.body)) =>
        /\ Len(httpEmit) = Len(NonNotif)
        /\ \A j \in 1..Len(NonNotif) :
               j <= Len(httpEmit) /\ httpEmit[j] = RPCInvalidRequestError(NonNotif[j].id)
        /\ httpCalls = <<>>

\* the call passes the context and one value for each declared parameter
ArgsMatch(c) == Len(c.args) = Len(funcMap[c.method].args)

\* C27: every call of a registered function, from the JSON-RPC endpoint or
\* from a connection, passes one context and one value per declared
\* parameter, whatever the shape of the request, absent params included.
C27_Arguments ==
    /\ \A j \in 1..Len(httpCalls) : ArgsMatch(httpCalls[j])
    /\ curCall # NoCall => ArgsMatch(curCall)

-----------------------------------------------------------------------------
(* Properties of the keepalive replies *)

\* C21: at most one keepalive reply is pending for the write task, and
\* after a burst of pings the pending reply is the one for the latest ping
\* received.
C21_LatestPing ==
    /\ Len(pongs) <= 1
    /\ pongs # <<>> => pongs[1] = lastPing

-----------------------------------------------------------------------------
(* Properties of the context of a connection *)

\* C25: once the connection has stopped, the context Context() has handed
\* out is cancelled, whether it was first asked for before the stop or
\* after it.
C25_Cancelled == (quit /\ ctx # "nil") => ctx = "cancelled"

-----------------------------------------------------------------------------
(* Properties of the tasks of a connection *)

\* a task is active from its start until it has returned
Active(pc) == pc \notin {"none", "done"}

\* C26: a connection has at most one active read task and at most one
\* active write task at every moment; the read task a recovered fault
\* respawns takes the place of the faulting one, so that there are never two.
C26_Tasks ==
    /\ readers = IF Active(readPC) THEN 1 ELSE 0
    /\ Active(writePC) => wsState # "created"
    /\ respawns > 0 => readers <= 1

C26_Witness ==
    /\ respawns > 0
    /\ readers = 1
    /\ readPC = "read"
    /\ Active(writePC)

-----------------------------------------------------------------------------
(* Properties of the shutdown of a connection *)

\* a guaranteed-delivery push is under way: by the read task, for a frame or
\* after a recovered fault, or by a caller outside the tasks
ReadPushing == readPC \in {"push", "recover"}
CallerPushing == pushPC = "pushing"

\* C23: a guaranteed-delivery push that is under way when the connection is
\* stopped eventually returns, also when the queue is full and the write
\* task, gone, drains it no more.
C23_PushReturns ==
    /\ (CallerPushing /\ wsState = "stopped") ~> ~CallerPushing
    /\ (ReadPushing /\ wsState = "stopped") ~> ~ReadPushing

\* the push of a caller has returned on the quit signal, the queue full and
\* the write task gone
C23_Witness ==
    /\ lastPush = [kind |-> "write", sent |-> FALSE, quit |-> TRUE]
    /\ Len(writeChan) = ChanCap
    /\ writePC = "done"


\* C24: once the connection has been stopped, its read task and its write
\* task both exit in the end, given that a read that blocks returns when the
\* stream is closed or its deadline passes.
C24_TasksExit ==
    (wsState = "stopped") ~> (readPC = "done" /\ writePC = "done")

\* both tasks are gone: the read task stopped the connection on a failed
\* read, and the write task left on the quit signal
C24_Witness ==
    /\ wsState = "stopped"
    /\ readPC = "done" /\ readExit = "error"
    /\ writePC = "done" /\ writeExit = "quit"

-----------------------------------------------------------------------------
(* Properties of the token *)

RECURSIVE SumOf(_, _)
\* the sum of f over the set S, as a natural number
SumOf(f, S) ==
    IF S = {} THEN 0
    ELSE LET a == CHOOSE x \in S : TRUE IN f[a] + SumOf(f, S \ {a})

\* C28: after any sequence of Mint, Burn, Transfer and TransferFrom calls,
\* totalSupply equals the sum of the balances of all accounts, taken as
\* natural numbers.
C28_Supply == totalSupply = SumOf(balances, Accounts)

\* C29: between two Approve calls for a pair of owner and spender, the
\* amount the spender has moved out of the owner's balance by TransferFrom
\* calls that succeeded is at most the allowance the earlier Approve set.
C29_Allowance ==
    \A o \in Accounts : \A s \in Accounts : spent[o][s] <= allowances[o][s]

\* C30: a call that aborts (an empty address, a balance or an allowance that
\* is too small, a transfer to self, Mint or Burn by a caller other than the
\* admin) leaves totalSupply, every balance and every allowance as they were
\* before it.
C30_AbortKeeps ==
    [][(nOps' # nOps /\ lastOp'.panic # "")
          => UNCHANGED <<totalSupply, balances, allowances>>]_vars

\* a TransferFrom within the allowance has aborted on the balance of the
\* owner, on a token that has a supply, balances and an allowance to keep
C30_Witness ==
    /\ lastOp = [op |-> "TransferFrom", panic |-> "insufficient balance"]
    /\ totalSupply > 0
    /\ \E o \in Accounts : balances[o] > 0
    /\ \E o \in Accounts : \E s \in Accounts : allowances[o][s] > 0

====
